---------------------------- MODULE Spec2Model ----------------------------
(***************************************************************************)
(* A model of ZipHandler (tokenizer-inflate): the ZIP engine that reads an *)
(* archive through a strtok3 tokenizer, either by the central directory    *)
(* (random access) or by a forward scan of the local file headers.         *)
(*                                                                         *)
(* The archive is a sequence of bytes (0..255).  Offsets are 0-based as in *)
(* the source; Bytes(file, pos, n) is the n bytes that start at offset pos.*)
(* 32-bit values are kept in TLC's 32-bit integers: a value of 2^31 or     *)
(* more is represented by its two's complement (a negative number).  Such  *)
(* values are only compared for equality (signatures) or treated as a      *)
(* length no file of the model can supply.                                 *)
(***************************************************************************)
EXTENDS Integers, Sequences, FiniteSets, TLC

(***************************************************************************)
(* Bounds of the model.                                                    *)
(***************************************************************************)
\* The largest number of entries of a generated archive.
MaxEntries == 2

\* The size of the sync buffer.  The source uses 256 * 1024; the model
\* scales it down so that payloads longer than the buffer, and signatures
\* that straddle two peeks, occur within a few bytes.
syncBufferSize == 6

\* The length of the tail that is searched for the End-of-Central-Directory
\* signature.  The source uses 16 * 1024; scaled down like syncBufferSize.
tailChunkLength == 40

(***************************************************************************)
(* Little-endian codecs (token-types UINT16_LE and UINT32_LE).             *)
(***************************************************************************)
Min(a, b) == IF a <= b THEN a ELSE b

Bytes(file, pos, n) == SubSeq(file, pos + 1, pos + n)

UINT16_LE_get(array, off) == array[off + 1] + 256 * array[off + 2]

UINT32_LE_get(array, off) ==
    array[off + 1] + 256 * array[off + 2] + 65536 * array[off + 3]
      + 16777216 * (IF array[off + 4] >= 128 THEN array[off + 4] - 256
                                            ELSE array[off + 4])

UINT16_LE_put(n) == << n % 256, (n \div 256) % 256 >>

UINT32_LE_put(n) ==
    << n % 256, (n \div 256) % 256, (n \div 65536) % 256,
       (n \div 16777216) % 256 >>

(***************************************************************************)
(* Signatures.  0xE011CFD0 exceeds 2^31 and is written in two's complement.*)
(***************************************************************************)
Signature_LocalFileHeader == 67324752          \* 0x04034b50

Signature_CentralFileHeader == 33639248        \* 0x02014b50

Signature_EndOfCentralDirectory == 101010256   \* 0x06054b50

Signature_DataDescriptor == 134695760          \* 0x08074b50

Signature_Encrypted == -535703600              \* 0xE011CFD0 - 2^32

signatureToArray(signature) == UINT32_LE_put(signature)

ddSignatureArray == signatureToArray(Signature_DataDescriptor)

eocdSignatureBytes == signatureToArray(Signature_EndOfCentralDirectory)

(***************************************************************************)
(* Token codec: the fixed-length records.                                  *)
(***************************************************************************)
LocalFileHeaderToken_len == 30

LocalFileHeaderToken_get(array) ==
    [ signature        |-> UINT32_LE_get(array, 0),
      minVersion       |-> UINT16_LE_get(array, 4),
      dataDescriptor   |-> ((UINT16_LE_get(array, 6) \div 8) % 2 = 1),
      compressedMethod |-> UINT16_LE_get(array, 8),
      compressedSize   |-> UINT32_LE_get(array, 18),
      uncompressedSize |-> UINT32_LE_get(array, 22),
      filenameLength   |-> UINT16_LE_get(array, 26),
      extraFieldLength |-> UINT16_LE_get(array, 28),
      filename         |-> << >> ]

FileHeader_len == 46

FileHeader_get(array) ==
    [ signature        |-> UINT32_LE_get(array, 0),
      minVersion       |-> UINT16_LE_get(array, 6),
      dataDescriptor   |-> ((UINT16_LE_get(array, 8) \div 8) % 2 = 1),
      compressedMethod |-> UINT16_LE_get(array, 10),
      compressedSize   |-> UINT32_LE_get(array, 20),
      uncompressedSize |-> UINT32_LE_get(array, 24),
      filenameLength   |-> UINT16_LE_get(array, 28),
      extraFieldLength |-> UINT16_LE_get(array, 30),
      fileCommentLength |-> UINT16_LE_get(array, 32),
      relativeOffsetOfLocalHeader |-> UINT32_LE_get(array, 42),
      filename         |-> << >> ]

EndOfCentralDirectoryRecordToken_len == 22

EndOfCentralDirectoryRecordToken_get(array) ==
    [ signature                |-> UINT32_LE_get(array, 0),
      nrOfThisDisk             |-> UINT16_LE_get(array, 4),
      nrOfThisDiskWithTheStart |-> UINT16_LE_get(array, 6),
      nrOfEntriesOnThisDisk    |-> UINT16_LE_get(array, 8),
      nrOfEntriesOfSize        |-> UINT16_LE_get(array, 10),
      sizeOfCd                 |-> UINT32_LE_get(array, 12),
      offsetOfStartOfCd        |-> UINT32_LE_get(array, 16),
      zipFileCommentLength     |-> UINT16_LE_get(array, 20) ]

DataDescriptor_len == 16

DataDescriptor_get(array) ==
    [ signature        |-> UINT32_LE_get(array, 0),
      compressedSize   |-> UINT32_LE_get(array, 8),
      uncompressedSize |-> UINT32_LE_get(array, 12) ]


(***************************************************************************)
(* The external DEFLATE primitive (fflate decompressSync), for the raw     *)
(* DEFLATE streams the model writes: a chain of stored blocks.  A block    *)
(* starts with a byte whose bit 0 is BFINAL and bits 1-2 are BTYPE; a      *)
(* stored block (BTYPE 0) continues with LEN (u16), NLEN (u16) and LEN     *)
(* literal bytes.  Bytes after the final block are ignored.  Any other     *)
(* block type, or a block cut short, is reported as an error.              *)
(***************************************************************************)
Deflate(data) ==
    << 1, Len(data) % 256, Len(data) \div 256,
       255 - (Len(data) % 256), 255 - (Len(data) \div 256) >> \o data

RECURSIVE InflateBlocks(_, _, _)
InflateBlocks(bytes, at, out) ==
    IF at + 5 > Len(bytes) THEN [ok |-> FALSE, data |-> << >>]
    ELSE LET head == bytes[at + 1]
             len  == UINT16_LE_get(bytes, at + 1)
         IN  IF (head \div 2) % 4 # 0 \/ at + 5 + len > Len(bytes)
             THEN [ok |-> FALSE, data |-> << >>]
             ELSE IF head % 2 = 1
                  THEN [ok |-> TRUE, data |-> out \o Bytes(bytes, at + 5, len)]
                  ELSE InflateBlocks(bytes, at + 5 + len,
                                     out \o Bytes(bytes, at + 5, len))

decompressSync(fileData) == InflateBlocks(fileData, 0, << >>)

(***************************************************************************)
(* Archives: the inputs.  An entry is described by its name, compression   *)
(* method, the general-purpose bit 3 (dataDescriptor), whether the local   *)
(* header carries the sizes (sized) or leaves them 0, its uncompressed     *)
(* data and the length of the extra field of its local header; its central *)
(* file header carries an extra field of twice that length and a file      *)
(* comment of that length.  The bytes are laid out as the token codecs     *)
(* above read them.                                                        *)
(***************************************************************************)
Payload(e) == IF e.method = 0 THEN e.data ELSE Deflate(e.data)

Zeros(n) == [i \in 1..n |-> 0]

LocalHeaderBytes(e) ==
    signatureToArray(Signature_LocalFileHeader)
      \o UINT16_LE_put(20)
      \o UINT16_LE_put(IF e.dd THEN 8 ELSE 0)
      \o UINT16_LE_put(e.method)
      \o Zeros(4)
      \o Zeros(4)
      \o UINT32_LE_put(IF e.sized THEN Len(Payload(e)) ELSE 0)
      \o UINT32_LE_put(IF e.sized THEN Len(e.data) ELSE 0)
      \o UINT16_LE_put(Len(e.name))
      \o UINT16_LE_put(e.extra)
      \o e.name
      \o Zeros(e.extra)

DataDescriptorBytes(e) ==
    IF e.dd
    THEN signatureToArray(Signature_DataDescriptor) \o Zeros(4)
           \o UINT32_LE_put(Len(Payload(e))) \o UINT32_LE_put(Len(e.data))
    ELSE << >>

EntryBytes(e) == LocalHeaderBytes(e) \o Payload(e) \o DataDescriptorBytes(e)

CentralHeaderBytes(e, offset) ==
    signatureToArray(Signature_CentralFileHeader)
      \o UINT16_LE_put(20)
      \o UINT16_LE_put(20)
      \o UINT16_LE_put(IF e.dd THEN 8 ELSE 0)
      \o UINT16_LE_put(e.method)
      \o Zeros(4)
      \o Zeros(4)
      \o UINT32_LE_put(Len(Payload(e)))
      \o UINT32_LE_put(Len(e.data))
      \o UINT16_LE_put(Len(e.name))
      \o UINT16_LE_put(2 * e.extra)
      \o UINT16_LE_put(e.extra)
      \o Zeros(8)
      \o UINT32_LE_put(offset)
      \o e.name
      \o Zeros(2 * e.extra)
      \o Zeros(e.extra)

EndOfCentralDirectoryBytes(n, sizeOfCd, offsetOfStartOfCd) ==
    signatureToArray(Signature_EndOfCentralDirectory)
      \o Zeros(4)
      \o UINT16_LE_put(n)
      \o UINT16_LE_put(n)
      \o UINT32_LE_put(sizeOfCd)
      \o UINT32_LE_put(offsetOfStartOfCd)
      \o UINT16_LE_put(0)

\* The offset of the local header of entry i (1-based) of the entry list.
RECURSIVE LocalOffset(_, _)
LocalOffset(es, i) ==
    IF i = 1 THEN 0 ELSE LocalOffset(es, i - 1) + Len(EntryBytes(es[i - 1]))

RECURSIVE LocalPart(_, _)
LocalPart(es, i) ==
    IF i > Len(es) THEN << >> ELSE EntryBytes(es[i]) \o LocalPart(es, i + 1)

\* The central directory lists the entries in the order `order` (a
\* permutation of the indices of es).
RECURSIVE CentralPart(_, _, _)
CentralPart(es, order, k) ==
    IF k > Len(order) THEN << >>
    ELSE CentralHeaderBytes(es[order[k]], LocalOffset(es, order[k]))
           \o CentralPart(es, order, k + 1)

CdOrder(es, reversed) ==
    [k \in 1..Len(es) |-> IF reversed THEN Len(es) + 1 - k ELSE k]

ArchiveBytes(es, reversed) ==
    LET locals == LocalPart(es, 1)
        cd     == CentralPart(es, CdOrder(es, reversed), 1)
    IN  locals \o cd \o EndOfCentralDirectoryBytes(Len(es), Len(cd), Len(locals))

\* The kinds of entry the archives are made of.
EntryKinds ==
    { \* stored, sizes in the local header
      [name |-> <<97>>, method |-> 0, dd |-> FALSE, sized |-> TRUE,
       data |-> <<65, 66>>, extra |-> 0],
      \* deflated, sizes in the local header, with an extra field
      [name |-> <<98>>, method |-> 8, dd |-> FALSE, sized |-> TRUE,
       data |-> <<67>>, extra |-> 1],
      \* stored, streamed: sizes only in the data descriptor; short payload
      [name |-> <<99>>, method |-> 0, dd |-> TRUE, sized |-> FALSE,
       data |-> <<68>>, extra |-> 0],
      \* stored, streamed; the payload ends so close to the end of the sync
      \* buffer that the descriptor signature straddles two peeks
      [name |-> <<100>>, method |-> 0, dd |-> TRUE, sized |-> FALSE,
       data |-> <<69, 70, 71, 72>>, extra |-> 0],
      \* deflated, data descriptor present and sizes in the local header; the
      \* payload contains the bytes of the data-descriptor signature
      [name |-> <<101>>, method |-> 8, dd |-> TRUE, sized |-> TRUE,
       data |-> <<80, 75, 7, 8>>, extra |-> 0] }

RECURSIVE EntryLists(_)
EntryLists(n) ==
    IF n = 0 THEN { << >> }
    ELSE LET shorter == EntryLists(n - 1)
         IN  shorter \cup { Append(es, e) : es \in { x \in shorter : Len(x) = n - 1 },
                                            e \in EntryKinds }

\* Where entry i ends (the offset after its payload and data descriptor).
EntryEnd(es, i) == LocalOffset(es, i) + Len(EntryBytes(es[i]))

PayloadStart(es, i) == LocalOffset(es, i) + Len(LocalHeaderBytes(es[i]))

PayloadEnd(es, i) == PayloadStart(es, i) + Len(Payload(es[i]))

\* The lengths a byte source is cut to: the whole archive, and for each
\* entry a cut inside its payload, inside its data descriptor, exactly at
\* its end and two bytes after its end; and a cut two bytes into the first
\* local file header.
CutPoints(es, reversed) ==
    { Len(ArchiveBytes(es, reversed)) }
      \cup { PayloadEnd(es, i) - 1 : i \in { j \in 1..Len(es) : Len(Payload(es[j])) > 0 } }
      \cup { PayloadEnd(es, i) + 8 : i \in { j \in 1..Len(es) : es[j].dd } }
      \cup { EntryEnd(es, i) : i \in 1..Len(es) }
      \cup { EntryEnd(es, i) + 2 : i \in 1..Len(es) }
      \cup (IF es = << >> THEN {} ELSE { 2 })

\* The archive comments: none, a short one, one that contains the bytes of
\* the End-of-Central-Directory signature, the longest one for which the
\* end record still lies within the tail that is searched for it, and one
\* that is a byte longer.
Comments ==
    { << >>, << 33, 34 >>, << 80, 75, 5, 6 >>,
      [i \in 1..(tailChunkLength - EndOfCentralDirectoryRecordToken_len) |-> 32],
      [i \in 1..(tailChunkLength - EndOfCentralDirectoryRecordToken_len + 1) |-> 32] }

\* The bytes with the archive comment appended to the end record, whose last
\* field is the length of the comment.
WithComment(bytes, comment) ==
    SubSeq(bytes, 1, Len(bytes) - 2) \o UINT16_LE_put(Len(comment)) \o comment

\* The bytes with patch written over them from offset at on.
Overwrite(bytes, at, patch) ==
    [i \in 1..Len(bytes) |->
        IF i > at /\ i <= at + Len(patch) THEN patch[i - at] ELSE bytes[i]]

\* The ways an archive is damaged.  Its last entry: the signature of its
\* local file header replaced by the marker of an encrypted archive or by
\* another value (here the data-descriptor signature) or by the signature
\* of a central file header ("misplaced": the offset the central directory
\* gives does not lead to a local file header), or the signature of its
\* data descriptor replaced by zeros.  Its central directory: the
\* signature of the last central file header replaced (by that of a local
\* file header).  Its end record: the number of entries on this disk set to
\* 0, as in the last part of an archive that spans disks.
Damages(es) ==
    IF es = << >> THEN { "none" }
    ELSE { "none", "encrypted", "signature", "misplaced", "central", "disk" }
           \cup (IF es[Len(es)].dd THEN { "descriptor" } ELSE {})

\* The offset of the k-th central file header (1-based) of an archive whose
\* central directory lists the entries in order.
RECURSIVE CentralOffset(_, _)
CentralOffset(es, k) ==
    IF k = 1 THEN Len(LocalPart(es, 1))
    ELSE CentralOffset(es, k - 1)
           + Len(CentralHeaderBytes(es[k - 1], LocalOffset(es, k - 1)))

Damaged(es, bytes, damage) ==
    CASE damage = "none" -> bytes
      [] damage = "encrypted" ->
           Overwrite(bytes, LocalOffset(es, Len(es)),
                     signatureToArray(Signature_Encrypted))
      [] damage = "signature" ->
           Overwrite(bytes, LocalOffset(es, Len(es)),
                     signatureToArray(Signature_DataDescriptor))
      [] damage = "misplaced" ->
           Overwrite(bytes, LocalOffset(es, Len(es)),
                     signatureToArray(Signature_CentralFileHeader))
      [] damage = "descriptor" ->
           Overwrite(bytes, PayloadEnd(es, Len(es)), Zeros(4))
      [] damage = "central" ->
           Overwrite(bytes, CentralOffset(es, Len(es)),
                     signatureToArray(Signature_LocalFileHeader))
      [] damage = "disk" ->
           Overwrite(bytes, CentralOffset(es, Len(es) + 1) + 8, UINT16_LE_put(0))

\* The bytes of the source an input describes.
SourceBytes(a) ==
    SubSeq(Damaged(a.entries,
                   WithComment(ArchiveBytes(a.entries, a.reversed), a.comment),
                   a.damage),
           1, a.cut + Len(a.comment))

(***************************************************************************)
(* The tokenizer (strtok3), as far as ZipHandler uses it.  A read or peek  *)
(* of n bytes at pos succeeds when the source holds them; otherwise it     *)
(* throws EndOfStreamError, unless mayBeLess is given.  ignore(n) past the *)
(* end throws on a sequential tokenizer (it reads the bytes it skips) and  *)
(* stops at the end of the file on a random-access tokenizer.  A length    *)
(* that is negative stands for a value of 2^31 or more.                    *)
(***************************************************************************)
Holds(file, pos, n) == pos >= 0 /\ n >= 0 /\ pos <= Len(file) /\ n <= Len(file) - pos

\* peekBuffer(buffer, {mayBeLess: true}): the number of bytes peeked.
PeekMayBeLess(file, pos, n) ==
    IF pos >= Len(file) THEN 0 ELSE Min(n, Len(file) - pos)

\* readBuffer(buffer, {position: at}) with the tokenizer at pos: the bytes
\* read and the position left.  A read at a given position does not advance.
ReadBufferAt(file, pos, at, n) == [bytes |-> Bytes(file, at, n), pos |-> pos]

\* ignore(n): the outcome and the position after it.
Ignore(file, randomAccess, pos, n) ==
    IF Holds(file, pos, n) THEN [ok |-> TRUE, pos |-> pos + n]
    ELSE IF randomAccess THEN [ok |-> TRUE, pos |-> Len(file)]
    ELSE [ok |-> FALSE, pos |-> pos]

(***************************************************************************)
(* indexOf and mergeArrays.                                                *)
(***************************************************************************)
indexOf(buffer, portion) ==
    IF Len(portion) > Len(buffer) THEN -1
    ELSE LET found == { i \in 0..(Len(buffer) - Len(portion)) :
                          \A j \in 1..Len(portion) : buffer[i + j] = portion[j] }
         IN  IF found = {} THEN -1
             ELSE CHOOSE i \in found : \A k \in found : i <= k

RECURSIVE mergeArrays(_)
mergeArrays(chunks) ==
    IF chunks = << >> THEN << >> ELSE Head(chunks) \o mergeArrays(Tail(chunks))

(***************************************************************************)
(* ZipHandler.  Each operator gives the outcome of a method, or of a part  *)
(* of a method, on a file and a position: kind "throw" with the error, or  *)
(* the method's result and the position it leaves; ops counts the          *)
(* tokenizer calls it issued.  A method is split where a value it computed *)
(* is used by the rest of it: the rest is an operator that takes the value *)
(* as a parameter.                                                         *)
(***************************************************************************)
NoHeader == LocalFileHeaderToken_get(Zeros(LocalFileHeaderToken_len))

\* peekSignature: `this.tokenizer.peekToken(UINT32_LE)` at pos; the peek
\* throws when fewer than 4 bytes are left, and leaves the position.
peekSignature(file, pos) ==
    IF Holds(file, pos, 4)
    THEN [ok |-> TRUE, value |-> UINT32_LE_get(Bytes(file, pos, 4), 0), pos |-> pos]
    ELSE [ok |-> FALSE, value |-> 0, pos |-> pos]

\* A variant of isZip that reads the signature instead of peeking it.
isZipReading(file, pos) ==
    IF ~peekSignature(file, pos).ok
    THEN [result |-> "EndOfStreamError", pos |-> pos]
    ELSE [result |-> IF peekSignature(file, pos).value = Signature_LocalFileHeader
                     THEN "true" ELSE "false",
          pos |-> pos + 4]

\* isZip: "true" or "false", or the error of the peek; and the position
\* the tokenizer is left at.
isZip(file, pos) ==
    IF ~peekSignature(file, pos).ok
    THEN [result |-> "EndOfStreamError", pos |-> peekSignature(file, pos).pos]
    ELSE [result |-> IF peekSignature(file, pos).value = Signature_LocalFileHeader
                     THEN "true" ELSE "false",
          pos |-> peekSignature(file, pos).pos]

\* reading names the record the failing or last operation was reading
\* ("header", "extra", "payload"); inflated tells whether the decompressor
\* was called.
Thrown(error, pos, ops) ==
    [kind |-> "throw", error |-> error, header |-> NoHeader, pos |-> pos,
     data |-> << >>, ops |-> ops, filtered |-> FALSE, peeks |-> 0,
     reading |-> "header", inflated |-> FALSE]

\* A variant of rejectSignature that reports every signature alike.
rejectSignatureAlike(pos, signature) == Thrown("Unexpected signature", pos, 1)

\* The end of readLocalFileHeader: the signature is neither that of a local
\* file header nor that of a central file header.
rejectSignature(pos, signature) ==
    IF signature = Signature_Encrypted
    THEN Thrown("Encrypted ZIP", pos, 1)
    ELSE Thrown("Unexpected signature", pos, 1)

\* readLocalFileHeader, once the signature has been peeked.
readLocalFileHeaderSigned(file, pos, signature) ==
    IF signature = Signature_LocalFileHeader
    THEN IF ~Holds(file, pos, LocalFileHeaderToken_len)
         THEN Thrown("EndOfStreamError", pos, 2)
         ELSE LET header == LocalFileHeaderToken_get(
                                Bytes(file, pos, LocalFileHeaderToken_len))
                  at == pos + LocalFileHeaderToken_len
              IN  IF ~Holds(file, at, header.filenameLength)
                  THEN Thrown("EndOfStreamError", at, 3)
                  ELSE [kind |-> "header", error |-> "",
                        header |-> [header EXCEPT
                           !.filename = Bytes(file, at, header.filenameLength)],
                        pos |-> at + header.filenameLength,
                        data |-> << >>, ops |-> 3, filtered |-> FALSE,
                        peeks |-> 0, reading |-> "header",
                        inflated |-> FALSE]
    ELSE IF signature = Signature_CentralFileHeader
    THEN [kind |-> "false", error |-> "", header |-> NoHeader, pos |-> pos,
          data |-> << >>, ops |-> 1, filtered |-> FALSE, peeks |-> 0,
          reading |-> "header", inflated |-> FALSE]
    ELSE rejectSignature(pos, signature)

readLocalFileHeader(file, pos) ==
    IF ~Holds(file, pos, 4) THEN Thrown("EndOfStreamError", pos, 1)
    ELSE readLocalFileHeaderSigned(file, pos, UINT32_LE_get(Bytes(file, pos, 4), 0))

\* inflate: what the handler is called with, or the decompressor's error.
inflate(zipHeader, fileData) ==
    IF zipHeader.compressedMethod = 0
    THEN [ok |-> TRUE, data |-> fileData, inflated |-> FALSE]
    ELSE [ok |-> decompressSync(fileData).ok,
          data |-> decompressSync(fileData).data, inflated |-> TRUE]

\* The loop of unzip that scans for the data-descriptor signature, from the
\* position pos on; chunks are the chunks captured so far (none without a
\* handler), peeks the number of peeks made so far.  scanPeeked is one pass
\* of the loop once len bytes have been peeked and searched.
RECURSIVE scanForDataDescriptor(_, _, _, _, _)
\* A variant of scanPeeked that keeps the last 3 bytes of a peek in which
\* the signature was not found, so that the next peek overlaps it.
scanPeekedOverlapping(file, pos, handler, chunks, peeks, len, nextHeaderIndex) ==
    LET size == IF nextHeaderIndex >= 0 THEN nextHeaderIndex
                ELSE IF len = syncBufferSize THEN len - 3 ELSE len
        captured == IF handler THEN Append(chunks, Bytes(file, pos, size))
                               ELSE chunks
    IN  IF nextHeaderIndex < 0 /\ len = syncBufferSize
        THEN scanForDataDescriptor(file, pos + size, handler, captured, peeks + 1)
        ELSE [pos |-> pos + size, chunks |-> captured, peeks |-> peeks + 1]

scanPeeked(file, pos, handler, chunks, peeks, len, nextHeaderIndex) ==
    LET size == IF nextHeaderIndex >= 0 THEN nextHeaderIndex ELSE len
        captured == IF handler THEN Append(chunks, Bytes(file, pos, size))
                               ELSE chunks
    IN  IF nextHeaderIndex < 0 /\ len = syncBufferSize
        THEN scanForDataDescriptor(file, pos + size, handler, captured, peeks + 1)
        ELSE [pos |-> pos + size, chunks |-> captured, peeks |-> peeks + 1]

\* (The pass is written as a function of the position, so that the
\* position is a value when the pass is evaluated.)
scanForDataDescriptor(file, pos, handler, chunks, peeks) ==
    [at \in Int |->
       scanPeeked(file, at, handler, chunks, peeks,
                  PeekMayBeLess(file, at, syncBufferSize),
                  indexOf(Bytes(file, at, PeekMayBeLess(file, at, syncBufferSize)),
                          ddSignatureArray))][pos]

\* One pass of the forward scan of unzip, from the top of the loop to the
\* call of the handler: kind "end" when no local file header follows,
\* "handler" when the handler has been called with data, "ignored" when the
\* payload has been skipped.  filtered tells whether the filter was called;
\* seen is the outcome so far, with the header that was read.
unzipFailed(seen, reading, error, pos, ops) ==
    [seen EXCEPT !.kind = "throw", !.error = error, !.pos = pos, !.ops = ops,
                 !.reading = reading]

\* ... `await this.inflate(zipHeader, fileData, next.handler)`
unzipInflated(seen, pos, ops, peeks, out) ==
    IF out.ok
    THEN [seen EXCEPT !.kind = "handler", !.pos = pos, !.data = out.data,
                      !.ops = ops, !.peeks = peeks, !.reading = "payload",
                      !.inflated = out.inflated]
    ELSE [unzipFailed(seen, "payload", "DecompressError", pos, ops)
            EXCEPT !.inflated = TRUE]

\* ... after the scan for the data-descriptor signature
unzipScanned(seen, handler, scan) ==
    IF handler
    THEN unzipInflated(seen, scan.pos, 4 + 2 * scan.peeks, scan.peeks,
                       inflate(seen.header, mergeArrays(scan.chunks)))
    ELSE [seen EXCEPT !.kind = "ignored", !.pos = scan.pos,
                      !.ops = 4 + 2 * scan.peeks, !.peeks = scan.peeks,
                      !.reading = "payload"]

\* ... after `await this.tokenizer.ignore(zipHeader.compressedSize)`
unzipIgnored(seen, skip) ==
    IF skip.ok
    THEN [seen EXCEPT !.kind = "ignored", !.pos = skip.pos, !.ops = 5,
                      !.reading = "payload"]
    ELSE unzipFailed(seen, "payload", "EndOfStreamError", skip.pos, 5)

\* A variant of unzipPayload that scans for the data-descriptor signature
\* whenever the dataDescriptor flag is set.
unzipPayloadScanning(file, randomAccess, handler, seen, extra) ==
    IF ~extra.ok THEN unzipFailed(seen, "extra", "EndOfStreamError", extra.pos, 4)
    ELSE IF seen.header.dataDescriptor
    THEN unzipScanned(seen, handler,
                      scanForDataDescriptor(file, extra.pos, handler, << >>, 0))
    ELSE IF handler
    THEN IF ~Holds(file, extra.pos, seen.header.compressedSize)
         THEN unzipFailed(seen, "payload", "EndOfStreamError", extra.pos, 5)
         ELSE unzipInflated(seen, extra.pos + seen.header.compressedSize, 5, 0,
                            inflate(seen.header,
                                    Bytes(file, extra.pos,
                                          seen.header.compressedSize)))
    ELSE unzipIgnored(seen, Ignore(file, randomAccess, extra.pos,
                                   seen.header.compressedSize))

\* ... after `await this.tokenizer.ignore(zipHeader.extraFieldLength)`
unzipPayload(file, randomAccess, handler, seen, extra) ==
    IF ~extra.ok THEN unzipFailed(seen, "extra", "EndOfStreamError", extra.pos, 4)
    ELSE IF seen.header.dataDescriptor /\ seen.header.compressedSize = 0
    THEN unzipScanned(seen, handler,
                      scanForDataDescriptor(file, extra.pos, handler, << >>, 0))
    ELSE IF handler
    THEN IF ~Holds(file, extra.pos, seen.header.compressedSize)
         THEN unzipFailed(seen, "payload", "EndOfStreamError", extra.pos, 5)
         ELSE unzipInflated(seen, extra.pos + seen.header.compressedSize, 5, 0,
                            inflate(seen.header,
                                    Bytes(file, extra.pos,
                                          seen.header.compressedSize)))
    ELSE unzipIgnored(seen, Ignore(file, randomAccess, extra.pos,
                                   seen.header.compressedSize))

\* A variant of unzipBreak that takes the missing header for an error.
unzipBreakNot(h) == [h EXCEPT !.kind = "throw", !.error = "Unexpected signature"]

\* `if (!zipHeader) break`: the forward scan is complete.
unzipBreak(h) == [h EXCEPT !.kind = "end"]

\* ... after `const zipHeader = await this.readLocalFileHeader()`
unzipHeaderRead(file, randomAccess, handler, h) ==
    IF h.kind = "throw" THEN h
    ELSE IF h.kind = "false" THEN unzipBreak(h)
    ELSE unzipPayload(file, randomAccess, handler, [h EXCEPT !.filtered = TRUE],
                      Ignore(file, randomAccess, h.pos, h.header.extraFieldLength))

unzipEntry(file, randomAccess, pos, handler) ==
    unzipHeaderRead(file, randomAccess, handler, readLocalFileHeader(file, pos))

\* A variant of readDataDescriptor that skips the descriptor unverified
\* (`await this.tokenizer.ignore(DataDescriptor.len)`).
readDataDescriptorIgnored(file, pos, zipHeader) ==
    IF ~zipHeader.dataDescriptor THEN [ok |-> TRUE, error |-> "", pos |-> pos, ops |-> 0]
    ELSE IF ~Holds(file, pos, DataDescriptor_len)
    THEN [ok |-> FALSE, error |-> "EndOfStreamError", pos |-> pos, ops |-> 1]
    ELSE [ok |-> TRUE, error |-> "", pos |-> pos + DataDescriptor_len, ops |-> 1]

\* A variant of readDataDescriptor that skips four more bytes than the
\* descriptor has (`ignore(lenDataDescriptor + 4)`).
readDataDescriptorLonger(file, pos, zipHeader) ==
    IF ~zipHeader.dataDescriptor THEN [ok |-> TRUE, error |-> "", pos |-> pos, ops |-> 0]
    ELSE IF ~Holds(file, pos, DataDescriptor_len + 4)
    THEN [ok |-> FALSE, error |-> "EndOfStreamError", pos |-> pos, ops |-> 1]
    ELSE [ok |-> TRUE, error |-> "", pos |-> pos + DataDescriptor_len + 4, ops |-> 1]

\* The end of a pass of the forward scan: the data descriptor of the entry.
readDataDescriptor(file, pos, zipHeader) ==
    IF ~zipHeader.dataDescriptor THEN [ok |-> TRUE, error |-> "", pos |-> pos, ops |-> 0]
    ELSE IF ~Holds(file, pos, DataDescriptor_len)
    THEN [ok |-> FALSE, error |-> "EndOfStreamError", pos |-> pos, ops |-> 1]
    ELSE IF DataDescriptor_get(Bytes(file, pos, DataDescriptor_len)).signature
              # Signature_DataDescriptor
    THEN [ok |-> FALSE, error |-> "Expected data-descriptor-signature",
          pos |-> pos + DataDescriptor_len, ops |-> 1]
    ELSE [ok |-> TRUE, error |-> "", pos |-> pos + DataDescriptor_len, ops |-> 1]

\* A variant of iteratePayload that takes the size of the payload from the
\* local file header.
iteratePayloadLocal(file, fileHeader, seen, extra) ==
    IF ~Holds(file, extra.pos, seen.header.compressedSize)
    THEN unzipFailed(seen, "payload", "EndOfStreamError", extra.pos, 6)
    ELSE unzipInflated(seen, extra.pos + seen.header.compressedSize, 6, 0,
                       inflate(seen.header,
                               Bytes(file, extra.pos, seen.header.compressedSize)))

\* One pass of iterateOverCentralDirectory for the central entry fileHeader,
\* up to the call of the handler; kind "skipped" when the handler was
\* selected but no local file header was read.
\* ... after `await this.tokenizer.ignore(zipHeader.extraFieldLength)`
iteratePayload(file, fileHeader, seen, extra) ==
    IF ~Holds(file, extra.pos, fileHeader.compressedSize)
    THEN unzipFailed(seen, "payload", "EndOfStreamError", extra.pos, 6)
    ELSE unzipInflated(seen, extra.pos + fileHeader.compressedSize, 6, 0,
                       inflate(seen.header,
                               Bytes(file, extra.pos, fileHeader.compressedSize)))

\* ... after `const zipHeader = await this.readLocalFileHeader()`
iterateHeaderRead(file, fileHeader, h) ==
    IF h.kind = "throw" THEN [h EXCEPT !.filtered = TRUE, !.ops = h.ops + 1]
    ELSE IF h.kind = "false"
    THEN [h EXCEPT !.kind = "skipped", !.filtered = TRUE, !.ops = h.ops + 1]
    ELSE iteratePayload(file, fileHeader, [h EXCEPT !.filtered = TRUE],
                        Ignore(file, TRUE, h.pos, h.header.extraFieldLength))

\* A variant of iterateEntry that seeks to the local file header before it
\* looks at the handler.
iterateEntrySeeking(file, pos, fileHeader, handler) ==
    IF ~handler
    THEN [kind |-> "ignored", error |-> "", header |-> NoHeader,
          pos |-> fileHeader.relativeOffsetOfLocalHeader,
          data |-> << >>, ops |-> 1, filtered |-> TRUE, peeks |-> 0,
          reading |-> "header", inflated |-> FALSE]
    ELSE iterateHeaderRead(file, fileHeader,
             readLocalFileHeader(file, fileHeader.relativeOffsetOfLocalHeader))

iterateEntry(file, pos, fileHeader, handler) ==
    IF ~handler
    THEN [kind |-> "ignored", error |-> "", header |-> NoHeader, pos |-> pos,
          data |-> << >>, ops |-> 0, filtered |-> TRUE, peeks |-> 0,
          reading |-> "none", inflated |-> FALSE]
    ELSE iterateHeaderRead(file, fileHeader,
             readLocalFileHeader(file, fileHeader.relativeOffsetOfLocalHeader))

\* A variant of findEndOfCentralDirectoryLocator that returns the first
\* match from the beginning of the tail.
findEndOfCentralDirectoryLocatorForward(file) ==
    LET size == Len(file)
        chunkLength == Min(tailChunkLength, size)
        buffer == Bytes(file, size - chunkLength, chunkLength)
        hits == { i \in 0..(Len(buffer) - 4) :
                    SubSeq(buffer, i + 1, i + 4) = eocdSignatureBytes }
    IN  IF hits = {} THEN -1
        ELSE size - chunkLength + (CHOOSE i \in hits : \A k \in hits : i <= k)

\* The offset findEndOfCentralDirectoryLocator returns; the read of the tail
\* is a read at a given position.
findEndOfCentralDirectoryLocator(file) ==
    LET size == Len(file)
        chunkLength == Min(tailChunkLength, size)
        buffer == ReadBufferAt(file, 0, size - chunkLength, chunkLength).bytes
        hits == { i \in 0..(Len(buffer) - 4) :
                    /\ buffer[i + 1] = eocdSignatureBytes[1]
                    /\ buffer[i + 2] = eocdSignatureBytes[2]
                    /\ buffer[i + 3] = eocdSignatureBytes[3]
                    /\ buffer[i + 4] = eocdSignatureBytes[4] }
    IN  IF hits = {} THEN -1
        ELSE size - chunkLength + (CHOOSE i \in hits : \A k \in hits : k <= i)

\* A variant of readCentralEntry that ends the list at a record that is not
\* a central file header and returns the entries read so far.
RECURSIVE readCentralEntries(_, _, _, _, _)
readCentralEntryPartial(file, at, n, files, ops, entry) ==
    IF entry.signature # Signature_CentralFileHeader
    THEN [ok |-> TRUE, error |-> "", files |-> files, ops |-> ops + 1]
    ELSE IF ~Holds(file, at + FileHeader_len, entry.filenameLength)
    THEN [ok |-> FALSE, error |-> "EndOfStreamError", files |-> << >>,
          ops |-> ops + 2]
    ELSE readCentralEntries(
           file,
           Ignore(file, TRUE,
                  Ignore(file, TRUE, at + FileHeader_len + entry.filenameLength,
                         entry.extraFieldLength).pos,
                  entry.fileCommentLength).pos,
           n - 1,
           Append(files, [entry EXCEPT !.filename =
                            Bytes(file, at + FileHeader_len, entry.filenameLength)]),
           ops + 4)

\* The loop of readCentralDirectory: n more central file headers from at;
\* ops counts the tokenizer calls issued so far.  readCentralEntry is one
\* pass of the loop once the central file header has been decoded.
readCentralEntry(file, at, n, files, ops, entry) ==
    IF entry.signature # Signature_CentralFileHeader
    THEN [ok |-> FALSE, error |-> "Expected Central-File-Header signature",
          files |-> << >>, ops |-> ops + 1]
    ELSE IF ~Holds(file, at + FileHeader_len, entry.filenameLength)
    THEN [ok |-> FALSE, error |-> "EndOfStreamError", files |-> << >>,
          ops |-> ops + 2]
    ELSE readCentralEntries(
           file,
           Ignore(file, TRUE,
                  Ignore(file, TRUE, at + FileHeader_len + entry.filenameLength,
                         entry.extraFieldLength).pos,
                  entry.fileCommentLength).pos,
           n - 1,
           Append(files, [entry EXCEPT !.filename =
                            Bytes(file, at + FileHeader_len, entry.filenameLength)]),
           ops + 4)

\* (The pass is written as a function of the offset of the header.)
readCentralEntries(file, at, n, files, ops) ==
    IF n = 0 THEN [ok |-> TRUE, error |-> "", files |-> files, ops |-> ops]
    ELSE [pos \in Int |->
            IF ~Holds(file, pos, FileHeader_len)
            THEN [ok |-> FALSE, error |-> "EndOfStreamError", files |-> << >>,
                  ops |-> ops + 1]
            ELSE readCentralEntry(file, pos, n, files, ops,
                     FileHeader_get(Bytes(file, pos, FileHeader_len)))][at]

\* A variant of readCentralDirectoryRead that returns the list without
\* setting the position back.
readCentralDirectoryReadOn(pos, eocdHeader, read) ==
    IF read.ok
    THEN [kind |-> "list", error |-> "", entries |-> read.files,
          pos |-> eocdHeader.offsetOfStartOfCd + eocdHeader.sizeOfCd,
          ops |-> read.ops]
    ELSE [kind |-> "throw", error |-> read.error, entries |-> << >>,
          pos |-> eocdHeader.offsetOfStartOfCd, ops |-> read.ops]

\* readCentralDirectory: kind "none", "list" (with the entries) or "throw".
\* ... after the loop that reads the central file headers
readCentralDirectoryRead(pos, eocdHeader, read) ==
    IF read.ok
    THEN [kind |-> "list", error |-> "", entries |-> read.files, pos |-> pos,
          ops |-> read.ops + 1]
    ELSE [kind |-> "throw", error |-> read.error, entries |-> << >>,
          pos |-> eocdHeader.offsetOfStartOfCd, ops |-> read.ops]

\* A variant of readCentralDirectoryFrom that reads as many central file
\* headers as the end record counts on this disk.
readCentralDirectoryFromDisk(file, pos, eocdHeader) ==
    readCentralDirectoryRead(pos, eocdHeader,
        readCentralEntries(file, eocdHeader.offsetOfStartOfCd,
                           eocdHeader.nrOfEntriesOnThisDisk, << >>, 3))

\* ... after `eocdHeader = await this.tokenizer.readToken(..., offset)`
readCentralDirectoryFrom(file, pos, eocdHeader) ==
    readCentralDirectoryRead(pos, eocdHeader,
        readCentralEntries(file, eocdHeader.offsetOfStartOfCd,
                           eocdHeader.nrOfEntriesOfSize, << >>, 3))

\* ... after `offset = await this.findEndOfCentralDirectoryLocator()`
readCentralDirectoryAt(file, pos, offset) ==
    IF offset > 0
    THEN IF ~Holds(file, offset, EndOfCentralDirectoryRecordToken_len)
         THEN [kind |-> "throw", error |-> "EndOfStreamError",
               entries |-> << >>, pos |-> offset, ops |-> 2]
         ELSE readCentralDirectoryFrom(file, pos,
                  EndOfCentralDirectoryRecordToken_get(
                      Bytes(file, offset, EndOfCentralDirectoryRecordToken_len)))
    ELSE [kind |-> "none", error |-> "", entries |-> << >>, pos |-> pos,
          ops |-> 2]

\* A variant of readCentralDirectory that does not ask the tokenizer whether
\* it supports random access.
readCentralDirectorySearching(file, randomAccess, position) ==
    [offset \in Int |-> readCentralDirectoryAt(file, position, offset)]
      [findEndOfCentralDirectoryLocator(file)]

readCentralDirectory(file, randomAccess, position) ==
    IF ~randomAccess
    THEN [kind |-> "none", error |-> "", entries |-> << >>, pos |-> position,
          ops |-> 0]
    ELSE [offset \in Int |-> readCentralDirectoryAt(file, position, offset)]
           [findEndOfCentralDirectoryLocator(file)]

\* What a handler received, as the triple (filename, length, bytes).
Triple(filename, data) == << filename, Len(data), data >>

\* The forward scan (Path B) of a whole file on a sequential tokenizer, from
\* pos on, with a filter that returns a handler and stop = false for every
\* entry and handlers that resolve: whether unzip resolves, and the triples
\* the handlers receive.
RECURSIVE ForwardScan(_, _, _)
ForwardScanDescriptor(file, delivered, tail) ==
    IF ~tail.ok THEN [ok |-> FALSE, delivered |-> delivered]
    ELSE ForwardScan(file, tail.pos, delivered)

ForwardScanEntry(file, delivered, r) ==
    IF r.kind = "throw" THEN [ok |-> FALSE, delivered |-> delivered]
    ELSE IF r.kind = "end" THEN [ok |-> TRUE, delivered |-> delivered]
    ELSE ForwardScanDescriptor(file,
             delivered \cup { Triple(r.header.filename, r.data) },
             readDataDescriptor(file, r.pos, r.header))

ForwardScan(file, pos, delivered) ==
    ForwardScanEntry(file, delivered, unzipEntry(file, FALSE, pos, TRUE))

(***************************************************************************)
(* GzipHandler (the AsyncGunzip version).  inflate() returns a             *)
(* ReadableStream whose underlying source reads the tokenizer in pull and  *)
(* pushes what it read to an fflate AsyncGunzip, a decompressor that runs  *)
(* in a worker and answers through a callback.  The state of one call of   *)
(* inflate() is a record g:                                                *)
(*   source         the input: size (bytes of the gzip source), complete   *)
(*                  (the gzip member is complete), failAt (the number of   *)
(*                  the tokenizer read that rejects, 0 for none),          *)
(*                  corruptAt (the number of the data push the             *)
(*                  decompressor reports an error for, 0 for none), quiet  *)
(*                  (the decompressor emits nothing before the final push) *)
(*   position       the tokenizer position, reads the number of reads      *)
(*                  issued                                                 *)
(*   done, cancelled  the variables of inflate()                           *)
(*   pull           "no", or "reading": pull is suspended at its           *)
(*                  `await parent.tokenizer.readBuffer(...)`               *)
(*   started, pullAgain, state, reason, queue, closeRequested,             *)
(*   readRequests   the ReadableStream and its default controller          *)
(*   results        what the consumer's reads were answered with, in       *)
(*                  order; issued the number of reads it issued            *)
(*   terminated, finalPushed, inbox, outbox, broken, fed                   *)
(*                  the AsyncGunzip: the pushes posted to the worker and   *)
(*                  not yet processed, the answers posted by the worker    *)
(*                  and not yet delivered, whether the worker has thrown,  *)
(*                  and the number of data pushes it has processed         *)
(*   pushed         every push made, in order; emitted every chunk         *)
(*                  delivered to the callback, in order, and whether the   *)
(*                  consumer had cancelled by then                         *)
(*   uncaught       the exceptions thrown out of the callback              *)
(***************************************************************************)
\* The largest gzip source, in bytes.
MaxBytes == 3

\* The most reads the consumer issues.
MaxReads == 3

\* The size of the buffer of pull.  The source uses 1024; scaled down so
\* that a source takes more than one read.
chunkSize == 2

\* The high-water mark of the stream (inflate() passes no strategy).
HighWaterMark == 1

\* The errors: of the tokenizer, and of the decompressor for corrupt data
\* and for a member that ends early.
ReadError == "ReadError"

InvalidData == "invalid gzip data"

UnexpectedEOF == "unexpected EOF"

GzipSources ==
    { s \in [size : 0..MaxBytes, complete : BOOLEAN, failAt : 0..3,
             corruptAt : 0..2, quiet : BOOLEAN] :
        /\ s.corruptAt * chunkSize < s.size + chunkSize
        /\ (s.failAt - 2) * chunkSize < s.size
        /\ s.quiet => s.corruptAt = 0 }

\* The state after `new ReadableStream(...)`: start has run and has created
\* the decompressor.
start(source) ==
    [source |-> source, position |-> 0, reads |-> 0,
     done |-> FALSE, cancelled |-> FALSE, pull |-> "no",
     started |-> FALSE, pullAgain |-> FALSE,
     state |-> "readable", reason |-> "", queue |-> << >>,
     closeRequested |-> FALSE, readRequests |-> 0,
     results |-> << >>, issued |-> 0,
     terminated |-> FALSE, finalPushed |-> FALSE, inbox |-> << >>,
     outbox |-> << >>, broken |-> FALSE, fed |-> 0,
     pushed |-> << >>, emitted |-> << >>, uncaught |-> << >>]

\* n answers of the same kind to pending reads.
Answers(n, kind, value) == [i \in 1..n |-> [kind |-> kind, value |-> value]]

(***************************************************************************)
(* The ReadableStream and its default controller (WHATWG Streams).         *)
(***************************************************************************)
shouldCallPull(g) ==
    /\ g.state = "readable" /\ ~g.closeRequested /\ g.started
    /\ (g.readRequests > 0 \/ Len(g.queue) < HighWaterMark)

\* The stream calls pull: pull runs up to its await of readBuffer.
pullCalled(g) == [g EXCEPT !.pull = "reading", !.reads = @ + 1]

callPullIfNeeded(g) ==
    IF ~shouldCallPull(g) THEN g
    ELSE IF g.pull # "no" THEN [g EXCEPT !.pullAgain = TRUE]
    ELSE pullCalled(g)

canCloseOrEnqueue(g) == g.state = "readable" /\ ~g.closeRequested

\* ReadableStreamClose: the pending reads are answered with done.
streamClose(g) ==
    [g EXCEPT !.state = "closed",
              !.results = @ \o Answers(g.readRequests, "done", 0),
              !.readRequests = 0]

\* controller.enqueue(chunk), the stream being readable.
controllerEnqueue(g, chunk) ==
    callPullIfNeeded(
        IF g.readRequests > 0
        THEN [g EXCEPT !.results = Append(@, [kind |-> "chunk", value |-> chunk]),
                       !.readRequests = @ - 1]
        ELSE [g EXCEPT !.queue = Append(@, chunk)])

\* controller.close(), the stream being readable.
controllerClose(g) ==
    IF g.queue = << >> THEN streamClose([g EXCEPT !.closeRequested = TRUE])
    ELSE [g EXCEPT !.closeRequested = TRUE]

\* controller.error(e): nothing unless the stream is readable.
controllerError(g, e) ==
    IF g.state # "readable" THEN g
    ELSE [g EXCEPT !.state = "errored", !.reason = e, !.queue = << >>,
                   !.results = @ \o Answers(g.readRequests, "error", e),
                   !.readRequests = 0]

\* enqueue or close on a stream that is not readable throws a TypeError.
throwTypeError(g) == [g EXCEPT !.uncaught = Append(@, "TypeError")]

\* reader.read().
readerRead(g) ==
    IF g.state = "closed"
    THEN [g EXCEPT !.results = Append(@, [kind |-> "done", value |-> 0])]
    ELSE IF g.state = "errored"
    THEN [g EXCEPT !.results = Append(@, [kind |-> "error", value |-> g.reason])]
    ELSE IF g.queue # << >>
    THEN IF g.closeRequested /\ Len(g.queue) = 1
         THEN streamClose(
                [g EXCEPT !.results = Append(@, [kind |-> "chunk",
                                                 value |-> Head(g.queue)]),
                          !.queue = << >>])
         ELSE callPullIfNeeded(
                [g EXCEPT !.results = Append(@, [kind |-> "chunk",
                                                 value |-> Head(g.queue)]),
                          !.queue = Tail(@)])
    ELSE callPullIfNeeded([g EXCEPT !.readRequests = @ + 1])

(***************************************************************************)
(* The AsyncGunzip (fflate): push posts the chunk to the worker; terminate *)
(* kills the worker, and the pushes it has not processed are lost.         *)
(***************************************************************************)
terminate(g) == [g EXCEPT !.terminated = TRUE, !.inbox = << >>]

\* gunzip.push(chunk, final); chunk is the number of bytes pushed, the bytes
\* of the source from the offset at on.
gunzipPush(g, chunk, final) ==
    [g EXCEPT !.pushed = Append(@, [size |-> chunk, at |-> g.position - chunk,
                                    final |-> final,
                                    terminated |-> g.terminated]),
              !.finalPushed = final,
              !.inbox = IF g.terminated THEN @
                        ELSE Append(@, [size |-> chunk, final |-> final])]

\* What the worker answers to the push m: nothing, a chunk or an error.
\* A chunk is named by the number of the push that produced it; the chunk
\* of the final push is named 0.
workerAnswer(g, m) ==
    IF m.final
    THEN IF g.source.complete
         THEN << [err |-> "", chunk |-> 0, final |-> TRUE] >>
         ELSE << [err |-> UnexpectedEOF, chunk |-> 0, final |-> FALSE] >>
    ELSE IF g.source.corruptAt = g.fed + 1
    THEN << [err |-> InvalidData, chunk |-> 0, final |-> FALSE] >>
    ELSE IF g.source.quiet THEN << >>
    ELSE << [err |-> "", chunk |-> g.fed + 1, final |-> FALSE] >>

\* The worker processes the next push; a worker that throws stops.
workerProcessed(g, answer) ==
    [g EXCEPT !.inbox = Tail(@),
              !.fed = IF Head(g.inbox).final THEN @ ELSE @ + 1,
              !.outbox = @ \o answer,
              !.broken = answer # << >> /\ answer[1].err # ""]

(***************************************************************************)
(* GzipHandler.inflate: the callback of the decompressor, pull and cancel. *)
(***************************************************************************)
\* A variant of callback that does not look at cancelled.
callbackUnguarded(g, m) ==
    IF m.err # "" THEN controllerError(g, m.err)
    ELSE IF ~canCloseOrEnqueue(g) THEN throwTypeError(g)
    ELSE IF m.final
    THEN terminate(controllerClose(controllerEnqueue(g, m.chunk)))
    ELSE controllerEnqueue(g, m.chunk)

\* A variant of callback that drops the decompressor's error.
callbackSilent(g, m) ==
    IF m.err # "" THEN g
    ELSE IF g.cancelled THEN g
    ELSE IF ~canCloseOrEnqueue(g) THEN throwTypeError(g)
    ELSE IF m.final
    THEN terminate(controllerClose(controllerEnqueue(g, m.chunk)))
    ELSE controllerEnqueue(g, m.chunk)

\* A variant of callback that closes the stream on the final callback without
\* enqueueing its chunk.
callbackClosing(g, m) ==
    IF m.err # "" THEN controllerError(g, m.err)
    ELSE IF g.cancelled THEN g
    ELSE IF ~canCloseOrEnqueue(g) THEN throwTypeError(g)
    ELSE IF m.final
    THEN terminate(controllerClose(g))
    ELSE controllerEnqueue(g, m.chunk)

\* The callback given to AsyncGunzip, called with (err, chunk, final).
callback(g, m) ==
    IF m.err # "" THEN controllerError(g, m.err)
    ELSE IF g.cancelled THEN g
    ELSE IF ~canCloseOrEnqueue(g) THEN throwTypeError(g)
    ELSE IF m.final
    THEN terminate(controllerClose(controllerEnqueue(g, m.chunk)))
    ELSE controllerEnqueue(g, m.chunk)

\* fflate delivers an answer of the worker: it terminates the worker on an
\* error and on the final chunk, then calls the callback.
delivered(g, m) ==
    callback([(IF m.err # "" \/ m.final THEN terminate(g) ELSE g)
                EXCEPT !.outbox = Tail(@),
                       !.emitted = IF m.err # "" THEN @
                                   ELSE Append(@, [chunk |-> m.chunk,
                                                   cancelled |-> g.cancelled])],
             m)

\* A variant of pullRead that closes the stream itself when the source ends.
pullReadClosing(g, size) ==
    IF size = 0
    THEN IF canCloseOrEnqueue(g) THEN controllerClose([g EXCEPT !.done = TRUE])
         ELSE [g EXCEPT !.done = TRUE]
    ELSE gunzipPush([g EXCEPT !.position = @ + size], size, FALSE)

\* A variant of pullRead that does not remember that the source has ended.
pullReadRepeating(g, size) ==
    IF size = 0
    THEN IF ~g.cancelled
         THEN gunzipPush([g EXCEPT !.done = TRUE], 0, TRUE)
         ELSE [g EXCEPT !.done = TRUE]
    ELSE gunzipPush([g EXCEPT !.position = @ + size], size, FALSE)

\* A variant of pullRead that pushes the whole buffer instead of the bytes
\* the read has filled (`parent.gunzip.push(buffer, false)`).
pullReadWholeBuffer(g, size) ==
    IF size = 0
    THEN IF ~g.done
         THEN IF ~g.cancelled
              THEN gunzipPush([g EXCEPT !.done = TRUE], 0, TRUE)
              ELSE [g EXCEPT !.done = TRUE]
         ELSE g
    ELSE gunzipPush([g EXCEPT !.position = @ + size], chunkSize, FALSE)

\* pull, after readBuffer has returned size.
pullRead(g, size) ==
    IF size = 0
    THEN IF ~g.done
         THEN IF ~g.cancelled
              THEN gunzipPush([g EXCEPT !.done = TRUE], 0, TRUE)
              ELSE [g EXCEPT !.done = TRUE]
         ELSE g
    ELSE gunzipPush([g EXCEPT !.position = @ + size], size, FALSE)

\* pull, after readBuffer has rejected with err: `controller.error(err)`.
pullCaught(g, err) == controllerError(g, err)

\* The promise pull returned is fulfilled: the stream calls pull again when
\* it was asked to meanwhile.
pullFulfilled(g) ==
    IF g.pullAgain
    THEN callPullIfNeeded([g EXCEPT !.pull = "no", !.pullAgain = FALSE])
    ELSE [g EXCEPT !.pull = "no"]

\* The outcome of the read pull is suspended at.
readBuffer(g) ==
    IF g.source.failAt = g.reads THEN [err |-> ReadError, size |-> 0]
    ELSE [err |-> "", size |-> Min(chunkSize, g.source.size - g.position)]

pullResumed(g, read) ==
    pullFulfilled(IF read.err # "" THEN pullCaught(g, read.err)
                  ELSE pullRead(g, read.size))

\* cancel of the underlying source.
cancel(g) == [terminate(g) EXCEPT !.cancelled = TRUE]

\* stream.cancel(): the stream is closed, then cancel is called; nothing
\* when the stream is closed or errored already.
streamCancel(g) ==
    IF g.state # "readable" THEN g
    ELSE cancel([streamClose(g) EXCEPT !.queue = << >>])

(***************************************************************************)
(* The state of one call of unzip.                                         *)
(*   archive      the description of the input: its entries, whether the   *)
(*                central directory lists them in reverse, and the length  *)
(*                the byte source is cut to                                *)
(*   file         the bytes of the source                                  *)
(*   randomAccess tokenizer.supportsRandomAccess()                         *)
(*   position     tokenizer.position                                       *)
(*   pc           "Start", "EntryHeader" (the loop is about to take the    *)
(*                next entry), "Handler" (a handler's promise is pending), *)
(*                "Done" (unzip resolved), "Failed" (unzip rejected)       *)
(*   path         "A" (central directory), "B" (forward scan)              *)
(*   entries      the list readCentralDirectory returned                   *)
(*   index        the number of entries the loop has taken                 *)
(*   zipHeader    the header of the entry in progress                      *)
(*   stop         the stop the filter returned for it                      *)
(*   calls        the calls made to the filter and to handlers, and the    *)
(*                completions of the handlers, in order                    *)
(*   error        the error unzip rejected with                            *)
(*   reading      the record the last tokenizer operation was reading:     *)
(*                "none", "directory", "header", "extra", "payload" or     *)
(*                "descriptor"                                             *)
(*   tokenizerOps the number of tokenizer calls issued                     *)
(*   isZipCall    the call of isZip made on this tokenizer, if any: the    *)
(*                position it was made at, its result and the position it  *)
(*                left                                                     *)
(*   gz           the state of the call of GzipHandler.inflate() (the      *)
(*                record described with GzipHandler above); NoInflater     *)
(*                while the ZIP engine is followed                         *)
(***************************************************************************)
VARIABLES archive, file, randomAccess, position, pc, path, entries, index,
          zipHeader, stop, calls, error, reading, tokenizerOps, isZipCall, gz

zipVars == << archive, file, randomAccess, position, pc, path, entries, index,
              zipHeader, stop, calls, error, reading, tokenizerOps, isZipCall >>

vars == << zipVars, gz >>

\* inflate() has not been called.
NoInflater == [state |-> "none"]

\* The errors a handler may reject with.
HandlerErrors == { "E1", "E2" }

\* The inputs: every list of at most MaxEntries entries, its central
\* directory in order or reversed, whole or cut at one of its cut points;
\* and the whole archives with a comment, or with their last entry damaged.
PlainArchives ==
    UNION { UNION { { [entries |-> es, reversed |-> r, cut |-> c,
                       comment |-> << >>, damage |-> "none"] :
                        c \in IF r THEN { Len(ArchiveBytes(es, r)) }
                                   ELSE CutPoints(es, r) } :
                    r \in IF Len(es) >= 2 THEN BOOLEAN ELSE { FALSE } } :
            es \in EntryLists(MaxEntries) }

InputArchives ==
    PlainArchives
      \cup { [entries |-> es, reversed |-> FALSE,
              cut |-> Len(ArchiveBytes(es, FALSE)),
              comment |-> c, damage |-> "none"] :
                es \in EntryLists(MaxEntries), c \in Comments }
      \cup UNION { { [entries |-> es, reversed |-> FALSE,
                      cut |-> Len(ArchiveBytes(es, FALSE)),
                      comment |-> << >>, damage |-> d] : d \in Damages(es) } :
                  es \in EntryLists(MaxEntries) }

NoIsZipCall == [at |-> -1, result |-> "none", after |-> -1]

Init ==
    /\ archive \in InputArchives
    /\ file = SourceBytes(archive)
    /\ randomAccess \in BOOLEAN
    /\ position = 0
    /\ pc = "Start"
    /\ path = "none"
    /\ entries = << >>
    /\ index = 0
    /\ zipHeader = NoHeader
    /\ stop = FALSE
    /\ calls = << >>
    /\ error = ""
    /\ reading = "none"
    /\ tokenizerOps = 0
    /\ isZipCall = NoIsZipCall
    /\ gz = NoInflater

\* An element of calls: op is "filter", "handler", "resolved" or "rejected";
\* entry is the 0-based number of the entry in the traversal, at the offset
\* of its local file header, header the header the filter was given, data
\* the bytes the handler was called with, inflated whether the decompressor
\* produced them, error the error a handler rejected with.
Call(op, entry, at, header, handler, stopped, data, inflated) ==
    [op |-> op, entry |-> entry, at |-> at, name |-> header.filename,
     method |-> header.compressedMethod, handler |-> handler, stop |-> stopped,
     data |-> data, inflated |-> inflated, error |-> ""]

\* A variant of awaitInflate that does not wait for the handler's promise.
awaitInflateNot(next) == next

\* `await this.inflate(...)`: the handler has been called and unzip is
\* suspended until its promise settles; next is where unzip goes on then.
awaitInflate(next) == "Handler"

\* unzip, up to the first entry: the choice of the traversal.
UnzipListed(list) ==
    /\ tokenizerOps' = tokenizerOps + list.ops
    /\ position' = list.pos
    /\ entries' = list.entries
    /\ reading' = IF list.ops > 0 THEN "directory" ELSE reading
    /\ IF list.kind = "throw"
       THEN /\ pc' = "Failed" /\ error' = list.error /\ path' = path
       ELSE IF list.kind = "list"
       THEN /\ path' = "A"
            /\ pc' = IF list.entries = << >> THEN "Done" ELSE "EntryHeader"
            /\ error' = error
       ELSE /\ path' = "B" /\ pc' = "EntryHeader" /\ error' = error

\* A call of isZip, before unzip or after it has resolved; at most one call
\* is followed.
IsZipReturned(r) ==
    /\ isZipCall' = [at |-> position, result |-> r.result, after |-> r.pos]
    /\ position' = r.pos
    /\ tokenizerOps' = tokenizerOps + 1

IsZip ==
    /\ pc \in { "Start", "Done" }
    /\ isZipCall = NoIsZipCall
    /\ IsZipReturned(isZip(file, position))
    /\ UNCHANGED << archive, file, randomAccess, pc, path, entries, index,
                    zipHeader, stop, calls, error, reading, gz >>

Unzip ==
    /\ pc = "Start"
    /\ \E list \in { readCentralDirectory(file, randomAccess, position) } :
         UnzipListed(list)
    /\ UNCHANGED << archive, file, randomAccess, index, zipHeader, stop, calls,
                    isZipCall, gz >>

\* A variant of finishRead whose loop condition does not look at stop.
finishReadOn(tail, stopped) ==
    [pc    |-> IF ~tail.ok THEN "Failed" ELSE "EntryHeader",
     error |-> tail.error, pos |-> tail.pos, ops |-> tail.ops,
     reading |-> IF tail.ops > 0 THEN "descriptor" ELSE "payload"]

\* The end of a pass of the forward scan, after the payload: the data
\* descriptor, then the loop condition `while (!stop)`.
finishRead(tail, stopped) ==
    [pc    |-> IF ~tail.ok THEN "Failed" ELSE IF stopped THEN "Done" ELSE "EntryHeader",
     error |-> tail.error, pos |-> tail.pos, ops |-> tail.ops,
     reading |-> IF tail.ops > 0 THEN "descriptor" ELSE "payload"]

finishEntry(pos, header, stopped) ==
    finishRead(readDataDescriptor(file, pos, header), stopped)

\* One pass of the forward scan (Path B): the local file header, the filter,
\* the payload and, unless a handler was called, the data descriptor.  r is
\* the outcome of the pass up to the call of the handler.
ScanEntry(handler, next_stop, r, fin) ==
    /\ index' = IF r.filtered THEN index + 1 ELSE index
    /\ zipHeader' = IF r.filtered THEN r.header ELSE zipHeader
    /\ stop' = IF r.filtered THEN next_stop ELSE stop
    /\ calls' =
         (IF r.filtered
          THEN Append(calls, Call("filter", index, position, r.header, handler,
                                  next_stop, << >>, FALSE))
          ELSE calls)
         \o (IF r.kind = "handler"
             THEN << Call("handler", index, position, r.header, handler,
                          next_stop, r.data, r.inflated) >>
             ELSE << >>)
    /\ CASE r.kind = "throw" ->
              /\ pc' = "Failed" /\ error' = r.error /\ position' = r.pos
              /\ tokenizerOps' = tokenizerOps + r.ops /\ reading' = r.reading
         [] r.kind = "end" ->
              /\ pc' = "Done" /\ error' = error /\ position' = r.pos
              /\ tokenizerOps' = tokenizerOps + r.ops /\ reading' = r.reading
         [] r.kind = "handler" ->
              /\ pc' = awaitInflate(fin.pc) /\ error' = error /\ position' = r.pos
              /\ tokenizerOps' = tokenizerOps + r.ops /\ reading' = r.reading
         [] r.kind = "ignored" ->
              /\ pc' = fin.pc /\ error' = fin.error /\ position' = fin.pos
              /\ tokenizerOps' = tokenizerOps + r.ops + fin.ops
              /\ reading' = fin.reading

ScanPass(handler, next_stop, r) ==
    \E fin \in { finishEntry(r.pos, r.header, next_stop) } :
       ScanEntry(handler, next_stop, r, fin)

Scan ==
    /\ pc = "EntryHeader" /\ path = "B"
    /\ \E handler \in BOOLEAN, next_stop \in BOOLEAN :
         \E r \in { unzipEntry(file, randomAccess, position, handler) } :
            ScanPass(handler, next_stop, r)
    /\ UNCHANGED << archive, file, randomAccess, path, entries, isZipCall, gz >>

\* One pass of iterateOverCentralDirectory (Path A): the filter and, when it
\* returns a handler, the local file header and the payload.  r is the
\* outcome of the pass up to the call of the handler.
IterateEntry(handler, next_stop, fileHeader, r) ==
    /\ index' = index + 1
    /\ zipHeader' = r.header
    /\ stop' = next_stop
    /\ position' = r.pos
    /\ tokenizerOps' = tokenizerOps + r.ops
    /\ reading' = IF r.ops > 0 THEN r.reading ELSE reading
    /\ calls' =
         Append(calls, Call("filter", index, fileHeader.relativeOffsetOfLocalHeader,
                            fileHeader, handler, next_stop, << >>, FALSE))
         \o (IF r.kind = "handler"
             THEN << Call("handler", index, fileHeader.relativeOffsetOfLocalHeader,
                          fileHeader, handler, next_stop, r.data, r.inflated) >>
             ELSE << >>)
    /\ CASE r.kind = "throw" -> pc' = "Failed" /\ error' = r.error
         [] r.kind = "handler" ->
              /\ pc' = awaitInflate(IF next_stop \/ index + 1 = Len(entries)
                                    THEN "Done" ELSE "EntryHeader")
              /\ error' = error
         [] r.kind \in {"ignored", "skipped"} ->
              /\ pc' = IF next_stop \/ index + 1 = Len(entries)
                       THEN "Done" ELSE "EntryHeader"
              /\ error' = error

Iterate ==
    /\ pc = "EntryHeader" /\ path = "A"
    /\ \E handler \in BOOLEAN, next_stop \in BOOLEAN :
         \E r \in { iterateEntry(file, position, entries[index + 1], handler) } :
            IterateEntry(handler, next_stop, entries[index + 1], r)
    /\ UNCHANGED << archive, file, randomAccess, path, entries, isZipCall, gz >>

\* The promise of the pending handler resolves: unzip goes on after its
\* `await this.inflate(...)`.
HandlerResolved(fin) ==
    IF path = "B"
    THEN /\ pc' = fin.pc /\ error' = fin.error /\ position' = fin.pos
         /\ tokenizerOps' = tokenizerOps + fin.ops
         /\ reading' = fin.reading
    ELSE /\ pc' = IF stop \/ index = Len(entries) THEN "Done" ELSE "EntryHeader"
         /\ UNCHANGED << error, position, tokenizerOps, reading >>

HandlerResolves ==
    /\ pc = "Handler"
    /\ calls' = Append(calls, [calls[Len(calls)] EXCEPT !.op = "resolved",
                                                         !.data = << >>])
    /\ \E fin \in { finishEntry(position, zipHeader, stop) } :
         HandlerResolved(fin)
    /\ UNCHANGED << archive, file, randomAccess, path, entries, index,
                    zipHeader, stop, isZipCall, gz >>

\* A variant of HandlerRejects that catches the handler's error and goes on.
HandlerRejectsCaught ==
    /\ pc = "Handler"
    /\ \E e \in HandlerErrors :
         calls' = Append(calls, [calls[Len(calls)] EXCEPT !.op = "rejected",
                                                         !.data = << >>,
                                                         !.error = e])
    /\ \E fin \in { finishEntry(position, zipHeader, stop) } :
         HandlerResolved(fin)
    /\ UNCHANGED << archive, file, randomAccess, path, entries, index,
                    zipHeader, stop, isZipCall, gz >>

\* The promise of the pending handler rejects: the await throws, and unzip
\* rejects with the handler's error.
HandlerRejects ==
    /\ pc = "Handler"
    /\ \E e \in HandlerErrors :
         /\ calls' = Append(calls, [calls[Len(calls)] EXCEPT !.op = "rejected",
                                                              !.data = << >>,
                                                              !.error = e])
         /\ error' = e
    /\ pc' = "Failed"
    /\ UNCHANGED << archive, file, randomAccess, position, path, entries, index,
                    zipHeader, stop, reading, tokenizerOps, isZipCall, gz >>

Next ==
    IsZip \/ Unzip \/ Scan \/ Iterate \/ HandlerResolves \/ HandlerRejects

Spec == Init /\ [][Next]_vars

\* unzip is an async function whose awaits are on the tokenizer, which
\* answers every call on a finite source, and on the handlers: once called
\* it goes on whenever it can, and a pending handler settles.
FairSpec ==
    /\ Spec
    /\ WF_vars(Unzip) /\ WF_vars(Scan) /\ WF_vars(Iterate)
    /\ WF_vars(HandlerResolves \/ HandlerRejects)

(***************************************************************************)
(* The gzip inflater: one call of GzipHandler.inflate(), its consumer, the *)
(* tokenizer and the decompressor's worker.                                *)
(***************************************************************************)
\* The ZIP engine is not used.
ZipIdle ==
    /\ archive = [entries |-> << >>, reversed |-> FALSE, cut |-> 0,
                  comment |-> << >>, damage |-> "none"]
    /\ file = << >>
    /\ randomAccess = FALSE
    /\ position = 0
    /\ pc = "Start"
    /\ path = "none"
    /\ entries = << >>
    /\ index = 0
    /\ zipHeader = NoHeader
    /\ stop = FALSE
    /\ calls = << >>
    /\ error = ""
    /\ reading = "none"
    /\ tokenizerOps = 0
    /\ isZipCall = NoIsZipCall

GzipInit ==
    /\ ZipIdle
    /\ gz \in { start(s) : s \in GzipSources }

\* The stream has started: it calls pull for the first time.
Started ==
    /\ ~gz.started
    /\ gz' = callPullIfNeeded([gz EXCEPT !.started = TRUE])
    /\ UNCHANGED zipVars

\* The consumer calls reader.read().
Read ==
    /\ gz.issued < MaxReads
    /\ gz' = readerRead([gz EXCEPT !.issued = @ + 1])
    /\ UNCHANGED zipVars

\* The consumer cancels the stream.
Cancel ==
    /\ gz.state = "readable"
    /\ gz' = streamCancel(gz)
    /\ UNCHANGED zipVars

\* The read pull is suspended at completes, and pull runs to its end.
TokenizerReturns ==
    /\ gz.pull = "reading"
    /\ gz' = pullResumed(gz, readBuffer(gz))
    /\ UNCHANGED zipVars

\* The worker of the decompressor processes the next push.
WorkerProcesses ==
    /\ gz.inbox # << >> /\ ~gz.terminated /\ ~gz.broken
    /\ gz' = workerProcessed(gz, workerAnswer(gz, Head(gz.inbox)))
    /\ UNCHANGED zipVars

\* An answer of the worker reaches the callback.
Callback ==
    /\ gz.outbox # << >>
    /\ gz' = delivered(gz, Head(gz.outbox))
    /\ UNCHANGED zipVars

\* An answer posted by a worker that has been terminated since is lost.
Dropped ==
    /\ gz.terminated /\ gz.outbox # << >>
    /\ gz' = [gz EXCEPT !.outbox = Tail(@)]
    /\ UNCHANGED zipVars

GzipNext ==
    Started \/ Read \/ Cancel \/ TokenizerReturns \/ WorkerProcesses
      \/ Callback \/ Dropped

GzipSpec == GzipInit /\ [][GzipNext]_vars


\* The stream starts, the tokenizer answers every read, the worker
\* processes every push it has received and its answers are delivered (or
\* dropped, once it has been terminated).  Nothing is assumed of the
\* consumer.
GzipFairSpec ==
    /\ GzipSpec
    /\ WF_vars(Started) /\ WF_vars(TokenizerReturns)
    /\ WF_vars(WorkerProcesses) /\ WF_vars(Callback \/ Dropped)
(***************************************************************************)
(* What a run is observed by.                                              *)
(***************************************************************************)
\* The byte source holds the whole archive as it was written: it is not cut
\* short, has no comment and is not damaged.
Complete ==
    /\ archive.cut = Len(ArchiveBytes(archive.entries, archive.reversed))
    /\ archive.comment = << >>
    /\ archive.damage = "none"

\* The calls made to the filter, and the calls made to handlers, in order.
FilterCalls == SelectSeq(calls, LAMBDA c : c.op = "filter")

HandlerCalls == SelectSeq(calls, LAMBDA c : c.op = "handler")

\* The filter of this run has returned a handler and stop = false each time.
AlwaysHandlerNeverStop ==
    \A k \in 1..Len(FilterCalls) : FilterCalls[k].handler /\ ~FilterCalls[k].stop

Delivered == { Triple(HandlerCalls[k].name, HandlerCalls[k].data) :
                 k \in 1..Len(HandlerCalls) }

(***************************************************************************)
(* C1.  For a well-formed archive on which the forward scan (Path B, on a  *)
(* tokenizer without random access) completes without error, unzip on a   *)
(* random-access tokenizer (Path A), with a filter that always returns a   *)
(* handler and stop = false, delivers to the handlers the same set of      *)
(* (filename, decompressed length, decompressed bytes) triples as the      *)
(* Path B run.                                                             *)
(***************************************************************************)
C1_PathsDeliverSameTriples ==
    ( /\ path = "A" /\ pc = "Done" /\ Complete /\ AlwaysHandlerNeverStop
      /\ ForwardScan(file, 0, {}).ok )
    => Delivered = ForwardScan(file, 0, {}).delivered

\* Both runs end well on an archive of two entries, one of them streamed.
C1_Witness ==
    /\ path = "A" /\ pc = "Done" /\ Complete /\ AlwaysHandlerNeverStop
    /\ ForwardScan(file, 0, {}).ok
    /\ Len(HandlerCalls) = 2
    /\ \E k \in 1..2 : archive.entries[k].dd /\ ~archive.entries[k].sized

(***************************************************************************)
(* C2.  On both traversal paths, once the filter has returned stop = true  *)
(* for the entry with index i (and stop false for the earlier ones), the   *)
(* filter has been called exactly i + 1 times in all, and no handler is    *)
(* called for an entry after entry i.                                      *)
(***************************************************************************)
C2_StopEndsTraversal ==
    \A k \in 1..Len(calls) :
        (calls[k].op = "filter" /\ calls[k].stop)
        => /\ Len(FilterCalls) = calls[k].entry + 1
           /\ \A j \in 1..Len(FilterCalls) :
                  FilterCalls[j].stop => j = calls[k].entry + 1
           /\ \A j \in 1..Len(calls) :
                  calls[j].op = "handler" => calls[j].entry <= calls[k].entry

\* unzip has resolved on Path A after the filter stopped at the first of two
\* entries, with a handler for it.
C2_Witness ==
    /\ pc = "Done" /\ path = "A" /\ Len(entries) = 2
    /\ Len(FilterCalls) = 1 /\ FilterCalls[1].stop /\ FilterCalls[1].handler

(***************************************************************************)
(* C4.  When a handler was called for an entry, its promise has resolved   *)
(* before the filter is called for the next entry: between a call of a     *)
(* handler and any later call of the filter or of a handler lies the       *)
(* resolution of the former, and nothing but its settling follows a call   *)
(* of a handler directly.                                                  *)
(***************************************************************************)
C4_HandlerResolvesBeforeNextFilter ==
    \A k \in 1..Len(calls) :
        calls[k].op = "handler"
        => /\ k = Len(calls) => pc = "Handler"
           /\ k < Len(calls) =>
                /\ calls[k + 1].op \in { "resolved", "rejected" }
                /\ calls[k + 1].entry = calls[k].entry
           /\ \A j \in (k + 1)..Len(calls) :
                calls[j].op \in { "filter", "handler" }
                => /\ calls[k + 1].op = "resolved"
                   /\ k + 1 < j

\* Two entries have been handled one after the other, on Path B.
C4_Witness ==
    /\ path = "B" /\ Len(HandlerCalls) = 2 /\ Len(FilterCalls) = 2
    /\ pc = "Done"

(***************************************************************************)
(* C10.  If the handler called for an entry rejects with error E, unzip    *)
(* rejects with that E, and from then on nothing happens: no call of the   *)
(* filter or of a handler, no tokenizer operation.                         *)
(***************************************************************************)
HandlerRejected == \E k \in 1..Len(calls) : calls[k].op = "rejected"

C10_Step ==
    /\ (~HandlerRejected /\ HandlerRejected')
         => /\ pc' = "Failed"
            /\ error' = calls'[Len(calls')].error
            /\ error' \in HandlerErrors
            /\ tokenizerOps' = tokenizerOps /\ position' = position
    /\ HandlerRejected
         => UNCHANGED << calls, tokenizerOps, position, pc, error >>

C10_HandlerRejectionPropagates == [][C10_Step]_vars

\* The handler of the second entry has rejected with E2 and unzip has
\* rejected with it.
C10_Witness ==
    /\ pc = "Failed" /\ error = "E2" /\ HandlerRejected
    /\ calls[Len(calls)].entry = 1

(***************************************************************************)
(* The entries of the archive, as the traversal should meet them.          *)
(***************************************************************************)
\* The entries whose local file header starts at the offset at.
EntriesAt(at) ==
    { i \in 1..Len(archive.entries) : LocalOffset(archive.entries, i) = at }

\* The order the filter should see the entries in: the order of the central
\* directory on Path A, the order of the local file headers on Path B.
TraversalOrder ==
    IF path = "A" THEN CdOrder(archive.entries, archive.reversed)
    ELSE [k \in 1..Len(archive.entries) |-> k]

\* The payload of entry i (1-based) as the byte source holds it.
OnDiskPayload(i) ==
    Bytes(file, PayloadStart(archive.entries, i), Len(Payload(archive.entries[i])))

(***************************************************************************)
(* C3.  When the filter returns a handler and stop = true for the same     *)
(* entry of a well-formed archive, that handler is called at most once,    *)
(* with that entry's data, and when unzip has resolved it has been called  *)
(* once and its promise has resolved; on Path A and on Path B.             *)
(***************************************************************************)
C3_HandlerWithStop ==
    Complete =>
      \A k \in 1..Len(FilterCalls) :
        (FilterCalls[k].handler /\ FilterCalls[k].stop)
        => /\ Cardinality({ j \in 1..Len(HandlerCalls) :
                              HandlerCalls[j].entry = FilterCalls[k].entry }) <= 1
           /\ \A j \in 1..Len(HandlerCalls) :
                HandlerCalls[j].entry = FilterCalls[k].entry
                => \E i \in EntriesAt(FilterCalls[k].at) :
                      HandlerCalls[j].data = archive.entries[i].data
           /\ pc = "Done"
                => /\ \E j \in 1..Len(HandlerCalls) :
                        HandlerCalls[j].entry = FilterCalls[k].entry
                   /\ \E j \in 1..Len(calls) :
                        /\ calls[j].op = "resolved"
                        /\ calls[j].entry = FilterCalls[k].entry

\* unzip has resolved after handling and stopping at the second entry.
C3_Witness ==
    /\ Complete /\ pc = "Done" /\ Len(FilterCalls) = 2
    /\ FilterCalls[2].handler /\ FilterCalls[2].stop
    /\ calls[Len(calls)].op = "resolved"

(***************************************************************************)
(* C5.  On a well-formed archive the headers passed to the filter are a    *)
(* prefix of the archive's entries, each once and in order (the order of   *)
(* the central directory on Path A, of the local file headers on Path B),  *)
(* and when unzip has resolved the prefix ends at the first entry the      *)
(* filter stopped at, or at the last entry.                                *)
(***************************************************************************)
C5_FilterSeesPrefixInOrder ==
    (Complete /\ path # "none") =>
      /\ Len(FilterCalls) <= Len(archive.entries)
      /\ \A k \in 1..Len(FilterCalls) :
           /\ k <= Len(archive.entries)
                => /\ FilterCalls[k].name = archive.entries[TraversalOrder[k]].name
                   /\ FilterCalls[k].at =
                        LocalOffset(archive.entries, TraversalOrder[k])
           /\ k < Len(FilterCalls) => ~FilterCalls[k].stop
      /\ pc = "Done"
           => \/ Len(FilterCalls) = Len(archive.entries)
              \/ /\ Len(FilterCalls) >= 1
                 /\ FilterCalls[Len(FilterCalls)].stop

\* Path A has shown both entries of a reversed central directory to the
\* filter.
C5_Witness ==
    /\ Complete /\ path = "A" /\ archive.reversed /\ pc = "Done"
    /\ Len(FilterCalls) = 2
    /\ archive.entries[1] # archive.entries[2]

(***************************************************************************)
(* C6.  For an entry of a well-formed archive whose compression method is  *)
(* 0 and for which the filter returned a handler, the bytes the handler is *)
(* called with are the entry's payload as it is on disk, and the           *)
(* decompressor has not been called for them.                              *)
(***************************************************************************)
C6_StoredPassesThrough ==
    Complete =>
      \A j \in 1..Len(HandlerCalls) :
        HandlerCalls[j].method = 0
        => /\ ~HandlerCalls[j].inflated
           /\ \E i \in EntriesAt(HandlerCalls[j].at) :
                HandlerCalls[j].data = OnDiskPayload(i)

\* A stored entry has been handled on each kind of entry: here a streamed
\* one on Path B.
C6_Witness ==
    /\ Complete /\ path = "B" /\ Len(HandlerCalls) >= 1
    /\ HandlerCalls[1].method = 0 /\ HandlerCalls[1].data = << 68 >>

(***************************************************************************)
(* C7.  For a well-formed archive, an archive of no entries included, and  *)
(* a filter that returns handler = false for every entry, unzip ends       *)
(* without error, on a random-access and on a sequential tokenizer.        *)
(***************************************************************************)
AlwaysIgnore == \A k \in 1..Len(FilterCalls) : ~FilterCalls[k].handler

C7_IgnoreAllCompletes == (Complete /\ AlwaysIgnore) => pc # "Failed"

\* unzip has resolved after ignoring both entries, on a sequential tokenizer.
C7_Witness ==
    /\ Complete /\ AlwaysIgnore /\ pc = "Done" /\ ~randomAccess
    /\ Len(FilterCalls) = 2

(***************************************************************************)
(* C8.  On Path B, when the byte source ends at an entry boundary (fewer   *)
(* than 4 bytes are left where the signature of the next header is         *)
(* peeked), unzip resolves without error.                                  *)
(***************************************************************************)
C8_EndOfStreamAtBoundaryIsClean ==
    ( /\ path = "B" /\ pc \in { "Done", "Failed" }
      /\ reading = "header" /\ Len(file) - position < 4
      /\ \E i \in 1..Len(archive.entries) :
            position = EntryEnd(archive.entries, i) )
    => (pc = "Done" /\ error = "")

\* unzip has ended on Path B where the source ends, 0 to 3 bytes after the
\* end of the first entry, while peeking the signature of the next header.
C8_Witness ==
    /\ path = "B" /\ pc \in { "Done", "Failed" } /\ ~randomAccess
    /\ reading = "header" /\ Len(file) - position = 2
    /\ position = EntryEnd(archive.entries, 1)
    /\ Len(FilterCalls) = 1

(***************************************************************************)
(* C9.  On Path B, when the byte source ends inside the payload or inside  *)
(* the data descriptor of an entry the traversal has come to, unzip does   *)
(* not resolve.                                                            *)
(***************************************************************************)
\* The source ends inside the payload or the data descriptor of entry i.
EndsInside(i) ==
    \/ /\ PayloadStart(archive.entries, i) <= archive.cut
       /\ archive.cut < PayloadEnd(archive.entries, i)
    \/ /\ archive.entries[i].dd
       /\ PayloadEnd(archive.entries, i) <= archive.cut
       /\ archive.cut < EntryEnd(archive.entries, i)

C9_TruncatedEntryFails ==
    \A i \in 1..Len(archive.entries) :
        ( /\ path = "B" /\ EndsInside(i)
          /\ \E k \in 1..Len(FilterCalls) :
                FilterCalls[k].at = LocalOffset(archive.entries, i) )
        => pc # "Done"

\* On a sequential tokenizer unzip has failed on a payload that is cut short.
C9_Witness ==
    /\ path = "B" /\ ~randomAccess /\ pc = "Failed"
    /\ error = "EndOfStreamError" /\ reading = "payload"
    /\ Len(FilterCalls) = 1 /\ EndsInside(1)

(***************************************************************************)
(* C11.  Whenever unzip resolves on a well-formed archive, because the     *)
(* filter returned stop or because the entries ended, the tokenizer        *)
(* position is a record boundary: the offset just after the payload of the *)
(* last entry presented to the filter, and after its 16-byte data          *)
(* descriptor when that entry has the dataDescriptor flag; on Path A and   *)
(* on Path B, with or without a handler for that entry.                    *)
(***************************************************************************)
C11_ResolvedAtRecordBoundary ==
    (pc = "Done" /\ Complete /\ Len(FilterCalls) >= 1)
    => \E i \in EntriesAt(FilterCalls[Len(FilterCalls)].at) :
          position = EntryEnd(archive.entries, i)

\* The forward scan has stopped at a first entry that has a data descriptor,
\* after its descriptor.
C11_Witness ==
    /\ pc = "Done" /\ Complete /\ path = "B" /\ Len(FilterCalls) = 1
    /\ Len(archive.entries) = 2 /\ archive.entries[1].dd
    /\ position = EntryEnd(archive.entries, 1)

(***************************************************************************)
(* C12.  isZip returns true if and only if the 4 bytes at the tokenizer    *)
(* position, read as a little-endian 32-bit value, are 0x04034B50 (the     *)
(* bytes 50 4B 03 04), and the position after isZip is the position before *)
(* it.  With fewer than 4 bytes left isZip returns neither value.          *)
(***************************************************************************)
C12_IsZipPeeksLocalFileHeader ==
    isZipCall.result # "none"
    => /\ isZipCall.result = "true"
            <=> /\ Len(file) - isZipCall.at >= 4
                /\ Bytes(file, isZipCall.at, 4) = << 80, 75, 3, 4 >>
       /\ isZipCall.result = "false"
            <=> /\ Len(file) - isZipCall.at >= 4
                /\ Bytes(file, isZipCall.at, 4) # << 80, 75, 3, 4 >>
       /\ isZipCall.after = isZipCall.at

\* isZip has returned true at the second local file header, where a forward
\* scan had stopped.
C12_Witness ==
    /\ isZipCall.result = "true" /\ isZipCall.at > 0 /\ path = "B"
    /\ position = isZipCall.at

(***************************************************************************)
(* C13.  On Path B, when the signature peeked at the top of the loop, at   *)
(* an entry boundary, is that of a central file header (50 4B 01 02),      *)
(* unzip resolves without error, calls no filter and no handler then or    *)
(* later, and leaves the position at that signature.                       *)
(***************************************************************************)
\* unzip, on Path B, is about to peek the signature sig at the position.
AtSignature(sig) ==
    /\ path = "B" /\ pc = "EntryHeader"
    /\ Len(file) - position >= 4
    /\ Bytes(file, position, 4) = sig

C13_Step ==
    /\ AtSignature(<< 80, 75, 1, 2 >>)
         => /\ pc' = "Done" /\ error' = ""
            /\ calls' = calls
            /\ position' = position
    /\ pc = "Done" => (pc' = "Done" /\ calls' = calls /\ error' = error)

C13_CentralHeaderEndsScan == [][C13_Step]_vars

\* The forward scan has resolved at the central directory of an archive of
\* two entries, having shown both to the filter.
C13_Witness ==
    /\ path = "B" /\ pc = "Done" /\ error = "" /\ Complete
    /\ Len(archive.entries) = 2 /\ Len(FilterCalls) = 2
    /\ ~FilterCalls[2].stop
    /\ position = EntryEnd(archive.entries, 2)
    /\ Bytes(file, position, 4) = << 80, 75, 1, 2 >>

(***************************************************************************)
(* C14.  On Path B, when the signature peeked at an entry boundary is the  *)
(* marker of an encrypted archive (0xE011CFD0) unzip fails with the        *)
(* encrypted-archive error; when it is any value other than that marker,   *)
(* the local-file-header signature and the central-file-header signature,  *)
(* unzip fails with the unexpected-signature error, a different error; in  *)
(* both cases the filter is not called for that position.                  *)
(***************************************************************************)
C14_Step ==
    /\ AtSignature(<< 208, 207, 17, 224 >>)
         => /\ pc' = "Failed" /\ error' = "Encrypted ZIP"
            /\ calls' = calls
    /\ ( /\ path = "B" /\ pc = "EntryHeader" /\ Len(file) - position >= 4
         /\ Bytes(file, position, 4) \notin
              { << 80, 75, 3, 4 >>, << 80, 75, 1, 2 >>, << 208, 207, 17, 224 >> } )
         => /\ pc' = "Failed" /\ error' = "Unexpected signature"
            /\ calls' = calls
    /\ pc = "Failed" => (pc' = "Failed" /\ calls' = calls /\ error' = error)

C14_BadSignatureFails == [][C14_Step]_vars

\* unzip has failed with the encrypted-archive error at the second entry of
\* an archive, after showing the first to the filter.
C14_Witness ==
    /\ path = "B" /\ pc = "Failed" /\ error = "Encrypted ZIP"
    /\ archive.damage = "encrypted" /\ Len(archive.entries) = 2
    /\ position = LocalOffset(archive.entries, 2)
    /\ Len(FilterCalls) = 1

(***************************************************************************)
(* C15.  On Path B, for an entry whose dataDescriptor flag is set, once    *)
(* the payload is consumed unzip reads exactly 16 bytes as the data        *)
(* descriptor and fails when their first 4 bytes are not 50 4B 07 08,      *)
(* whether the filter returned a handler or not; for an entry whose flag   *)
(* is clear no descriptor byte is read.                                    *)
(***************************************************************************)
\* The step reads the data descriptor of the entry of header h, whose
\* payload ends at p.
C15_DescriptorRead(p, h) ==
    /\ (h.dataDescriptor /\ Len(file) - p >= 16)
         => IF Bytes(file, p, 4) = << 80, 75, 7, 8 >>
            THEN position' = p + 16 /\ pc' # "Failed"
            ELSE pc' = "Failed" /\ error' = "Expected data-descriptor-signature"
    /\ (h.dataDescriptor /\ Len(file) - p < 16) => pc' = "Failed"
    /\ ~h.dataDescriptor => (position' = p /\ pc' # "Failed")

C15_Step ==
    /\ ( /\ path = "B" /\ pc = "Handler"
         /\ Len(calls') > Len(calls) /\ calls'[Len(calls')].op = "resolved" )
         => /\ C15_DescriptorRead(position, zipHeader)
            /\ ~zipHeader.dataDescriptor => tokenizerOps' = tokenizerOps
    /\ ( /\ path = "B" /\ pc = "EntryHeader"
         /\ Len(calls') = Len(calls) + 1
         /\ ~calls'[Len(calls')].handler
         /\ unzipEntry(file, randomAccess, position, FALSE).kind = "ignored" )
         => C15_DescriptorRead(unzipEntry(file, randomAccess, position, FALSE).pos,
                               zipHeader')

C15_DescriptorVerified == [][C15_Step]_vars

\* unzip has failed on the damaged descriptor of an entry it had ignored.
C15_Witness ==
    /\ path = "B" /\ pc = "Failed"
    /\ error = "Expected data-descriptor-signature"
    /\ archive.damage = "descriptor"
    /\ Len(FilterCalls) = 1 /\ ~FilterCalls[1].handler
    /\ zipHeader.dataDescriptor /\ zipHeader.compressedSize > 0

(***************************************************************************)
(* C16.  On Path B, an entry whose dataDescriptor flag is set and whose    *)
(* local header gives a non-zero compressedSize is not scanned for the     *)
(* data-descriptor signature: exactly compressedSize payload bytes are     *)
(* read (and given to inflate) or ignored, even when the payload contains  *)
(* the bytes 50 4B 07 08.                                                  *)
(***************************************************************************)
\* The step takes the entry of header h whose local file header is at the
\* offset at: its payload is the h.compressedSize bytes after the header.
C16_KnownSize(at, h) ==
    /\ pc' = "Handler"
         => /\ position' = at + LocalFileHeaderToken_len + h.filenameLength
                             + h.extraFieldLength + h.compressedSize
            /\ calls'[Len(calls')].data =
                 inflate(h, Bytes(file, position' - h.compressedSize,
                                  h.compressedSize)).data
    /\ pc' \in { "EntryHeader", "Done" }
         => position' = at + LocalFileHeaderToken_len + h.filenameLength
                           + h.extraFieldLength + h.compressedSize + 16

C16_Step ==
    ( /\ path = "B" /\ pc = "EntryHeader" /\ Len(calls') > Len(calls)
      /\ zipHeader'.dataDescriptor /\ zipHeader'.compressedSize > 0 )
    => C16_KnownSize(position, zipHeader')

C16_SizedEntryNotScanned == [][C16_Step]_vars

\* The handler has been called with the data of a sized entry that has a
\* data descriptor and whose payload contains the descriptor signature.
C16_Witness ==
    /\ path = "B" /\ pc = "Handler"
    /\ zipHeader.dataDescriptor /\ zipHeader.compressedSize = 9
    /\ indexOf(Bytes(file, position - 9, 9), ddSignatureArray) >= 0
    /\ calls[Len(calls)].op = "handler"
    /\ calls[Len(calls)].data = << 80, 75, 7, 8 >>

(***************************************************************************)
(* C17.  For every random-access archive whose End-of-Central-Directory    *)
(* record is followed by a non-empty comment of at most 16 KiB - 22 bytes  *)
(* (here tailChunkLength - 22), whatever the bytes of the comment,         *)
(* findEndOfCentralDirectoryLocator returns the absolute offset of that    *)
(* record.                                                                 *)
(***************************************************************************)
\* The offset of the end record of the archive.
EocdOffset ==
    Len(ArchiveBytes(archive.entries, archive.reversed))
      - EndOfCentralDirectoryRecordToken_len

\* unzip has searched the end record of a whole archive with a comment.
Commented ==
    /\ randomAccess /\ pc # "Start"
    /\ archive.cut = Len(ArchiveBytes(archive.entries, archive.reversed))
    /\ archive.damage = "none"
    /\ archive.comment # << >>
    /\ Len(archive.comment) <= tailChunkLength - EndOfCentralDirectoryRecordToken_len

C17_EocdFoundBeforeComment ==
    Commented => findEndOfCentralDirectoryLocator(file) = EocdOffset

\* The end record has been found before the longest comment, and the
\* central directory has been read through it.
C17_Witness ==
    /\ Commented /\ path = "A"
    /\ Len(archive.comment) = tailChunkLength - EndOfCentralDirectoryRecordToken_len
    /\ Len(archive.entries) = 2
    /\ findEndOfCentralDirectoryLocator(file) = EocdOffset
    /\ Len(entries) = 2

(***************************************************************************)
(* C18.  For a gzip source that ends before the gzip member is complete,   *)
(* the stream returned by inflate() never closes cleanly: unless the       *)
(* consumer cancels, it is never closed and no read is answered with done, *)
(* and once the decompressor has answered the final push the stream is     *)
(* errored and every read has been rejected or answered with a chunk       *)
(* emitted before.                                                         *)
(***************************************************************************)
\* The source has ended, the final chunk has been pushed and every answer
\* of the decompressor has been delivered.
Finalised == gz.finalPushed /\ gz.inbox = << >> /\ gz.outbox = << >>

C19_Step ==
    /\ ( /\ gz.state = "readable" /\ gz.outbox # << >>
         /\ Head(gz.outbox).err # ""
         /\ Len(gz'.outbox) < Len(gz.outbox) )
         => (gz'.state = "errored" /\ gz'.reason = Head(gz.outbox).err)
    /\ ( /\ gz.state = "readable" /\ gz.pull = "reading"
         /\ gz.source.failAt = gz.reads
         /\ (gz'.pull = "no" \/ gz'.reads # gz.reads) )
         => (gz'.state = "errored" /\ gz'.reason = ReadError)
    /\ gz.state = "errored"
         => /\ gz'.state = "errored" /\ gz'.reason = gz.reason
            /\ gz'.queue = << >>
            /\ \A k \in (Len(gz.results) + 1)..Len(gz'.results) :
                  gz'.results[k] = [kind |-> "error", value |-> gz.reason]

C19_ErrorAbortsOutput == [][C19_Step]_vars

\* A read has been answered with a chunk, then the decompressor has
\* reported corrupt data and the pending read has been rejected with it,
\* and so has a later read.
C19_Witness ==
    /\ gz.state = "errored" /\ gz.reason = InvalidData
    /\ Len(gz.results) = 3
    /\ gz.results[1].kind = "chunk"
    /\ gz.results[2] = [kind |-> "error", value |-> InvalidData]
    /\ gz.results[3] = [kind |-> "error", value |-> InvalidData]

(***************************************************************************)
(* C20.  Once the consumer has cancelled the stream, a callback of the     *)
(* decompressor (with a chunk, with the final chunk or with an error) has  *)
(* no effect on it: nothing is enqueued or given to the consumer, the      *)
(* stream is not closed by it and not errored, and the callback does not   *)
(* throw.                                                                  *)
(***************************************************************************)
C20_Step ==
    (gz.cancelled /\ Len(gz'.outbox) < Len(gz.outbox))
    => /\ gz'.state = gz.state /\ gz'.reason = gz.reason
       /\ gz'.queue = gz.queue /\ gz'.results = gz.results
       /\ gz'.closeRequested = gz.closeRequested
       /\ gz'.uncaught = gz.uncaught

C20_CallbacksAfterCancelDropped == [][C20_Step]_vars

\* A chunk has reached the callback after the consumer had cancelled.
C20_Witness ==
    /\ gz.cancelled
    /\ \E k \in 1..Len(gz.emitted) : gz.emitted[k].cancelled
    /\ gz.state = "closed" /\ gz.queue = << >>

(***************************************************************************)
(* C21.  Over any sequence of pull calls, the empty final chunk is pushed  *)
(* to the decompressor at most once, it is pushed only by a pull whose     *)
(* tokenizer read returned zero bytes, and nothing is pushed after it: a   *)
(* step pushes at most one chunk, only when no final chunk has been pushed *)
(* before, it is the step in which pull resumes from its read, the chunk   *)
(* is final exactly when the read returned zero bytes, and a chunk that is *)
(* not final holds the bytes that were read.                               *)
(***************************************************************************)
C21_Step ==
    Len(gz'.pushed) # Len(gz.pushed)
    => /\ Len(gz'.pushed) = Len(gz.pushed) + 1
       /\ SubSeq(gz'.pushed, 1, Len(gz.pushed)) = gz.pushed
       /\ \A k \in 1..Len(gz.pushed) : ~gz.pushed[k].final
       /\ gz.pull = "reading" /\ readBuffer(gz).err = ""
       /\ gz'.pushed[Len(gz'.pushed)].final <=> readBuffer(gz).size = 0
       /\ gz'.pushed[Len(gz'.pushed)].size = readBuffer(gz).size
       /\ gz'.pushed[Len(gz'.pushed)].at = gz.position

C21_FinalPushedOnce == [][C21_Step]_vars

\* Two data chunks and then the final chunk have been pushed, and a later
\* pull has read zero bytes again and has returned without pushing.
C21_Witness ==
    /\ gz.source.failAt = 0 /\ ~gz.cancelled /\ gz.state = "readable"
    /\ Len(gz.pushed) = 3 /\ gz.pushed[3].final
    /\ gz.pull = "no" /\ gz.reads > Len(gz.pushed)

(***************************************************************************)
(* C22.  Every chunk the decompressor emits before cancellation, while the *)
(* stream is readable, is forwarded to the consumer exactly once and in    *)
(* emission order; the stream is closed only in response to the            *)
(* decompressor's final callback, after the chunk of that callback has     *)
(* been enqueued, and the decompressor is terminated then.                 *)
(***************************************************************************)
C22_IsChunk(r) == r.kind = "chunk"

\* The chunks forwarded to the consumer and not discarded: those its reads
\* were answered with, then those in the queue of the stream.
C22_Forwarded(g) ==
    [k \in 1..Len(SelectSeq(g.results, C22_IsChunk)) |->
        SelectSeq(g.results, C22_IsChunk)[k].value] \o g.queue

\* The chunks the decompressor has emitted, in order.
C22_Emitted(g) == [k \in 1..Len(g.emitted) |-> g.emitted[k].chunk]

\* This step is the callback called with a chunk, the consumer not having
\* cancelled.
C22_ChunkCallback ==
    /\ gz.outbox # << >> /\ Head(gz.outbox).err = ""
    /\ Len(gz'.emitted) > Len(gz.emitted)
    /\ ~gz.cancelled

\* Nothing but the callback forwards a chunk, and the stream is closed by
\* the final callback only.
C22_Rest ==
    /\ ~C22_ChunkCallback
         => /\ Len(C22_Forwarded(gz')) <= Len(C22_Forwarded(gz))
            /\ C22_Forwarded(gz')
                 = SubSeq(C22_Forwarded(gz), 1, Len(C22_Forwarded(gz')))
    /\ (~gz.closeRequested /\ gz'.closeRequested)
         => /\ C22_ChunkCallback /\ Head(gz.outbox).final
            /\ gz'.terminated
    /\ (gz'.state = "closed" /\ ~gz'.cancelled)
         => /\ gz'.closeRequested /\ gz'.queue = << >>
            /\ C22_Forwarded(gz') = C22_Emitted(gz')
            /\ gz'.emitted[Len(gz'.emitted)].chunk = 0

C22_OriginalStep ==
    /\ C22_ChunkCallback
         => C22_Forwarded(gz') = C22_Forwarded(gz) \o << Head(gz.outbox).chunk >>
    /\ C22_Rest

C22_Step ==
    /\ (C22_ChunkCallback /\ gz.state = "readable")
         => C22_Forwarded(gz') = C22_Forwarded(gz) \o << Head(gz.outbox).chunk >>
    /\ (C22_ChunkCallback /\ gz.state # "readable")
         => C22_Forwarded(gz') = C22_Forwarded(gz)
    /\ C22_Rest

\* As stated, for every chunk emitted before cancellation.
C22_EveryChunkForwarded == [][C22_OriginalStep]_vars

\* For the chunks emitted while the stream is readable.
C22_ChunksForwardedWhileReadable == [][C22_Step]_vars

\* A source of one read has been inflated to its end: the reads were
\* answered with the chunk of the data, the chunk of the final callback and
\* done.
C22_Witness ==
    /\ gz.state = "closed" /\ ~gz.cancelled /\ gz.terminated
    /\ C22_Emitted(gz) = << 1, 0 >>
    /\ gz.results = << [kind |-> "chunk", value |-> 1],
                       [kind |-> "chunk", value |-> 0],
                       [kind |-> "done", value |-> 0] >>

(***************************************************************************)
(* C23.  On a random-access tokenizer with file size S and                 *)
(* L = min(tailChunkLength, S), findEndOfCentralDirectoryLocator returns   *)
(* the greatest offset o with S - L <= o <= S - 4 such that the 4 bytes at *)
(* o are 50 4B 05 06, and -1 when there is no such offset (as when S < 4); *)
(* the read it makes leaves the tokenizer position where it was.           *)
(***************************************************************************)
\* The offsets within the tail at which the signature lies.
C23_Matches ==
    { o \in (Len(file) - Min(tailChunkLength, Len(file)))..(Len(file) - 4) :
        Bytes(file, o, 4) = << 80, 75, 5, 6 >> }

\* unzip has called readCentralDirectory, which has searched the file.
C23_Searched == randomAccess /\ pc # "Start"

C24_Step ==
    /\ (pc = "Start" /\ pc' # "Start")
         => /\ ~randomAccess
                 => /\ readCentralDirectory(file, randomAccess, position).kind
                         = "none"
                    /\ tokenizerOps' = tokenizerOps /\ position' = position
                    /\ path' = "B" /\ pc' = "EntryHeader" /\ calls' = calls
            /\ path' = "A"
                 <=> readCentralDirectory(file, randomAccess, position).kind
                       = "list"
            /\ path' = "B"
                 <=> readCentralDirectory(file, randomAccess, position).kind
                       = "none"
    /\ pc # "Start" => path' = path
    /\ (~randomAccess /\ path = "B" /\ calls = << >> /\ calls' # << >>)
         => calls'[1].at = position

C24_SequentialUsesForwardScan == [][C24_Step]_vars

\* On a sequential tokenizer the forward scan has shown the first entry, at
\* the position unzip was called at, to the filter.
C24_Witness ==
    /\ ~randomAccess /\ path = "B" /\ isZipCall = NoIsZipCall
    /\ Len(FilterCalls) = 1 /\ FilterCalls[1].at = 0
    /\ FilterCalls[1].entry = 0

(***************************************************************************)
(* C25.  Whenever readCentralDirectory returns, with a list of entries or  *)
(* with none because no End-of-Central-Directory signature was located,    *)
(* the tokenizer position equals the position it had when                  *)
(* readCentralDirectory was called.                                        *)
(***************************************************************************)
C25_Step ==
    ( /\ pc = "Start" /\ pc' # "Start"
      /\ readCentralDirectory(file, randomAccess, position).kind # "throw" )
    => /\ position' = position
       /\ pc' \in { "EntryHeader", "Done" }

C25_PositionRestored == [][C25_Step]_vars

\* readCentralDirectory has read the end record and two central file
\* headers of a whole archive and has returned the list; the position is
\* the one unzip was called at.
C25_Witness ==
    /\ randomAccess /\ path = "A" /\ pc = "EntryHeader" /\ index = 0
    /\ Len(entries) = 2 /\ calls = << >> /\ isZipCall = NoIsZipCall
    /\ tokenizerOps > 2 /\ reading = "directory"
    /\ position = 0

(***************************************************************************)
(* C26.  When readCentralDirectory succeeds, the list it returns has       *)
(* exactly as many elements as the field 'total entries' of the            *)
(* End-of-Central-Directory record says (not the field 'entries on this    *)
(* disk'), in the order of the central directory, and the k-th header is   *)
(* the one decoded at offsetOfStartOfCd plus, for each earlier entry, 46   *)
(* and its filenameLength, extraFieldLength and fileCommentLength.         *)
(***************************************************************************)
\* The end record readCentralDirectory has read.
C26_EndRecord ==
    EndOfCentralDirectoryRecordToken_get(
        Bytes(file, findEndOfCentralDirectoryLocator(file),
              EndOfCentralDirectoryRecordToken_len))

\* The offset of the k-th central file header, after the headers before it.
RECURSIVE C26_Offset(_)
C26_Offset(k) ==
    IF k = 1 THEN C26_EndRecord.offsetOfStartOfCd
    ELSE C26_Offset(k - 1) + FileHeader_len
           + entries[k - 1].filenameLength + entries[k - 1].extraFieldLength
           + entries[k - 1].fileCommentLength

C26_ListOfTotalEntries ==
    path = "A"
    => /\ Len(entries) = C26_EndRecord.nrOfEntriesOfSize
       /\ \A k \in 1..Len(entries) :
            /\ entries[k]
                 = [FileHeader_get(Bytes(file, C26_Offset(k), FileHeader_len))
                      EXCEPT !.filename = Bytes(file, C26_Offset(k) + FileHeader_len,
                                                entries[k].filenameLength)]
            /\ entries[k].signature = Signature_CentralFileHeader
            /\ (archive.cut = Len(ArchiveBytes(archive.entries, archive.reversed))
                  /\ archive.comment # << 80, 75, 5, 6 >>)
                 => /\ Len(entries) = Len(archive.entries)
                    /\ entries[k].relativeOffsetOfLocalHeader
                         = LocalOffset(archive.entries,
                                       CdOrder(archive.entries, archive.reversed)[k])

\* The list of an archive of two entries whose end record counts no entry on
\* this disk; the first central file header has an extra field and a file
\* comment.
C26_Witness ==
    /\ path = "A" /\ archive.damage = "disk" /\ Len(entries) = 2
    /\ C26_EndRecord.nrOfEntriesOnThisDisk = 0
    /\ entries[1].extraFieldLength = 2 /\ entries[1].fileCommentLength = 1
    /\ C26_Offset(2) = C26_EndRecord.offsetOfStartOfCd + 50

(***************************************************************************)
(* C27.  If one of the records readCentralDirectory reads as central file  *)
(* headers does not start with the CentralFileHeader signature 0x02014B50, *)
(* readCentralDirectory fails with an error and returns no list, partial   *)
(* or not; unzip then fails with that error before the filter is called    *)
(* for any entry.                                                          *)
(***************************************************************************)
\* unzip has read the central directory of an archive whose last central
\* file header has a wrong signature.
C27_BadCentralHeader ==
    /\ randomAccess /\ pc # "Start" /\ archive.damage = "central"
    /\ UINT32_LE_get(Bytes(file, CentralOffset(archive.entries,
                                               Len(archive.entries)), 4), 0)
         # Signature_CentralFileHeader

C27_BadCentralHeaderFails ==
    /\ C27_BadCentralHeader
         => /\ pc = "Failed"
            /\ error = "Expected Central-File-Header signature"
            /\ path = "none" /\ entries = << >> /\ calls = << >>
    /\ error = "Expected Central-File-Header signature"
         => (pc = "Failed" /\ entries = << >> /\ calls = << >>)

\* unzip has failed on an archive of two entries, at the second central
\* file header, after reading the first.
C27_Witness ==
    /\ C27_BadCentralHeader /\ Len(archive.entries) = 2 /\ pc = "Failed"
    /\ error = "Expected Central-File-Header signature"
    /\ tokenizerOps > 6 /\ calls = << >>

(***************************************************************************)
(* C28.  On a random-access tokenizer, whenever                            *)
(* findEndOfCentralDirectoryLocator returns an offset other than -1 (any   *)
(* offset >= 0, also offset 0 for an archive that consists of the          *)
(* End-of-Central-Directory record only) and the records can be read,      *)
(* readCentralDirectory reads the record at that offset and returns a list *)
(* of totalEntries entries rather than none.                               *)
(***************************************************************************)
C28_ListWheneverLocated ==
    ( /\ randomAccess /\ pc # "Start"
      /\ findEndOfCentralDirectoryLocator(file) # -1
      /\ pc # "Failed" )
    => /\ path = "A"
       /\ Len(entries)
            = EndOfCentralDirectoryRecordToken_get(
                  Bytes(file, findEndOfCentralDirectoryLocator(file),
                        EndOfCentralDirectoryRecordToken_len)).nrOfEntriesOfSize

\* The archive consists of the end record only: the signature is found at
\* offset 0, readCentralDirectory has returned none and unzip has taken the
\* forward scan.
C28_Witness ==
    /\ randomAccess /\ archive.entries = << >> /\ Len(file) = 22
    /\ findEndOfCentralDirectoryLocator(file) = 0
    /\ path = "B" /\ pc = "EntryHeader" /\ entries = << >>

(***************************************************************************)
(* C29.  On Path A, for a central entry e for which the filter returns a   *)
(* handler, the compressed bytes given to inflate are exactly the          *)
(* e.compressedSize bytes of the archive that start at                     *)
(* e.relativeOffsetOfLocalHeader + 30 + n + m, where n and m are the       *)
(* filenameLength and extraFieldLength of the local header at that offset; *)
(* the size is that of the central entry even when the compressedSize of   *)
(* the local header is 0.                                                  *)
(***************************************************************************)
\* The local file header of the central entry e.
C29_LocalHeader(e) ==
    LocalFileHeaderToken_get(Bytes(file, e.relativeOffsetOfLocalHeader,
                                   LocalFileHeaderToken_len))

\* Where the payload of the central entry e starts.
C29_PayloadStart(e) ==
    e.relativeOffsetOfLocalHeader + LocalFileHeaderToken_len
      + C29_LocalHeader(e).filenameLength + C29_LocalHeader(e).extraFieldLength

\* This step is a pass of Path A in which a handler is called.
C29_HandlerCalled ==
    /\ path = "A" /\ pc = "EntryHeader"
    /\ Len(calls') = Len(calls) + 2
    /\ calls'[Len(calls')].op = "handler"

C29_Step ==
    /\ C29_HandlerCalled
         => /\ calls'[Len(calls')].data
                 = inflate(C29_LocalHeader(entries[index + 1]),
                           Bytes(file, C29_PayloadStart(entries[index + 1]),
                                 entries[index + 1].compressedSize)).data
            /\ position' = C29_PayloadStart(entries[index + 1])
                             + entries[index + 1].compressedSize
            /\ Complete
                 => calls'[Len(calls')].data
                      = archive.entries[CdOrder(archive.entries,
                                                archive.reversed)[index + 1]].data
    /\ ( /\ path = "A" /\ pc = "EntryHeader" /\ Complete
         /\ Len(calls') > Len(calls) /\ calls'[Len(calls) + 1].handler )
         => C29_HandlerCalled

C29_CentralSizeIsUsed == [][C29_Step]_vars

\* Path A has called the handlers of an entry whose local header has an
\* extra field and of a streamed entry whose local header has
\* compressedSize 0, each with the data of the entry.
C29_Witness ==
    /\ path = "A" /\ Complete /\ ~archive.reversed /\ Len(HandlerCalls) = 2
    /\ archive.entries[1].extra = 1 /\ ~archive.entries[2].sized
    /\ C29_LocalHeader(entries[2]).compressedSize = 0
    /\ entries[2].compressedSize > 0
    /\ HandlerCalls[1].data = archive.entries[1].data
    /\ HandlerCalls[2].data = archive.entries[2].data

(***************************************************************************)
(* C30.  On Path B, a pass over an entry of known size (compressedSize > 0 *)
(* or dataDescriptor flag clear) that starts at p and lies within the      *)
(* source leaves the tokenizer at exactly p + 30 + filenameLength          *)
(* + extraFieldLength + compressedSize, + 16 when the dataDescriptor flag  *)
(* is set, with a handler and without one.                                 *)
(***************************************************************************)
C30_Header(p) ==
    LocalFileHeaderToken_get(Bytes(file, p, LocalFileHeaderToken_len))

\* Where the entry at p ends, by the fields of its local file header.
C30_End(p) ==
    p + LocalFileHeaderToken_len + C30_Header(p).filenameLength
      + C30_Header(p).extraFieldLength + C30_Header(p).compressedSize
      + (IF C30_Header(p).dataDescriptor THEN DataDescriptor_len ELSE 0)

\* At p starts an entry of known size that the source holds to its end.
C30_KnownSize(p) ==
    /\ Holds(file, p, LocalFileHeaderToken_len)
    /\ C30_Header(p).signature = Signature_LocalFileHeader
    /\ C30_Header(p).compressedSize > 0 \/ ~C30_Header(p).dataDescriptor
    /\ C30_End(p) <= Len(file)

C30_Step ==
    \* without a handler: the pass is one step
    /\ ( /\ path = "B" /\ pc = "EntryHeader" /\ C30_KnownSize(position)
         /\ Len(calls') = Len(calls) + 1 )
         => /\ pc' \in { "EntryHeader", "Done", "Failed" }
            /\ pc' # "Failed" => position' = C30_End(position)
            /\ pc' = "Failed" => error' = "Expected data-descriptor-signature"
    \* with a handler: up to the call of the handler, then from its end
    /\ ( /\ path = "B" /\ pc = "EntryHeader" /\ C30_KnownSize(position)
         /\ Len(calls') = Len(calls) + 2 )
         => /\ pc' = "Handler"
            /\ position' = C30_End(position)
                 - (IF C30_Header(position).dataDescriptor
                    THEN DataDescriptor_len ELSE 0)
    /\ ( /\ path = "B" /\ pc = "Handler" /\ pc' \in { "EntryHeader", "Done" }
         /\ C30_KnownSize(calls[Len(calls)].at) )
         => position' = C30_End(calls[Len(calls)].at)

C30_KnownSizeEntryConsumedExactly == [][C30_Step]_vars

\* The forward scan has passed over two entries of known size that have a
\* data descriptor, the first without a handler and the second with one,
\* and is at the end of the second.
C30_Witness ==
    /\ path = "B" /\ Complete /\ Len(archive.entries) = 2
    /\ archive.entries[1].dd /\ archive.entries[1].sized
    /\ archive.entries[2].dd /\ archive.entries[2].sized
    /\ Len(FilterCalls) = 2 /\ ~FilterCalls[1].handler /\ FilterCalls[2].handler
    /\ pc = "EntryHeader"
    /\ position = C30_End(C30_End(0))
    /\ position = EntryEnd(archive.entries, 2)

(***************************************************************************)
(* C31.  On Path B, for an entry whose local header has the dataDescriptor *)
(* flag set and compressedSize 0, the compressed payload given to inflate  *)
(* (the concatenation of the captured chunks) is the bytes from the end of *)
(* the extra field up to, not including, the first occurrence of           *)
(* 50 4B 07 08, and after the scan the tokenizer is positioned exactly at  *)
(* that occurrence: for every payload length, also when the signature      *)
(* straddles two consecutive peeks.                                        *)
(***************************************************************************)
\* The offsets from `from` on at which the data-descriptor signature occurs.
C31_Occurrences(from) ==
    { i \in from..(Len(file) - 4) : Bytes(file, i, 4) = ddSignatureArray }

\* The first of them.
C31_First(from) ==
    CHOOSE i \in C31_Occurrences(from) : \A j \in C31_Occurrences(from) : i <= j

\* The end of the extra field of the local header read at the position.
C31_PayloadStart ==
    position + LocalFileHeaderToken_len + zipHeader'.filenameLength
      + zipHeader'.extraFieldLength

\* This step is a pass of Path B that scans for the signature, which occurs
\* in the source after the extra field, and calls the handler.
C31_ScannedForHandler ==
    /\ path = "B" /\ pc = "EntryHeader" /\ index' = index + 1
    /\ zipHeader'.dataDescriptor /\ zipHeader'.compressedSize = 0
    /\ C31_Occurrences(C31_PayloadStart) # { }
    /\ pc' = "Handler"

C31_Step ==
    C31_ScannedForHandler
      => /\ position' = C31_First(C31_PayloadStart)
         /\ calls'[Len(calls')].data
              = inflate(zipHeader',
                        Bytes(file, C31_PayloadStart,
                              C31_First(C31_PayloadStart) - C31_PayloadStart)).data

C31_ScanStopsAtFirstSignature == [][C31_Step]_vars

\* A handler has been called on Path B with the payload of a streamed entry
\* whose signature lies within the first peek, and the tokenizer stands at
\* the signature.
C31_Witness ==
    /\ path = "B" /\ pc = "Handler" /\ index = 1
    /\ zipHeader.dataDescriptor /\ zipHeader.compressedSize = 0
    /\ calls[Len(calls)].op = "handler"
    /\ calls[Len(calls)].data = << 68 >>
    /\ Bytes(file, position, 4) = ddSignatureArray
    /\ position = LocalFileHeaderToken_len + zipHeader.filenameLength + 1

(***************************************************************************)
(* C32.  For every finite byte source, and a filter and handlers that      *)
(* terminate, unzip terminates: it resolves or it rejects.  The loop that  *)
(* scans for the data-descriptor signature performs at most                *)
(* ceil(remaining bytes / syncBufferSize) + 1 peeks, and every iteration   *)
(* of Path B in which a local file header has been read advances the       *)
(* position by at least 30 bytes.                                          *)
(***************************************************************************)
\* This step is a pass of Path B in which a local file header is read.
C32_HeaderRead ==
    path = "B" /\ pc = "EntryHeader" /\ index' = index + 1

\* The end of the extra field of that header.
C32_ScanStart ==
    position + LocalFileHeaderToken_len + zipHeader'.filenameLength
      + zipHeader'.extraFieldLength

\* The pass runs the scanning loop: the header, the file name and the
\* extra field have been read (4 tokenizer calls).
C32_Scanning ==
    /\ C32_HeaderRead
    /\ zipHeader'.dataDescriptor /\ zipHeader'.compressedSize = 0
    /\ reading' # "extra"

\* The number of peeks of the scanning loop in this step: each pass of the
\* loop is a peek and a read or an ignore; the read of the data descriptor,
\* if it follows in the same step, is one call.
C32_Peeks == (tokenizerOps' - tokenizerOps - 4) \div 2

C32_Step ==
    /\ C32_HeaderRead => position' >= position + LocalFileHeaderToken_len
    /\ C32_Scanning
         => /\ C32_Peeks >= 1
            /\ C32_Peeks <= ((Len(file) - C32_ScanStart) + syncBufferSize - 1)
                              \div syncBufferSize + 1

C32_UnzipTerminates ==
    /\ [][C32_Step]_vars
    /\ <>(pc \in { "Done", "Failed" })

\* unzip has resolved on Path B after a pass whose scanning loop took
\* several peeks.
C32_Witness ==
    /\ pc = "Done" /\ path = "B" /\ index = 1
    /\ calls[1].name = << 100 >> /\ calls[1].handler
    /\ tokenizerOps >= 4 + 2 * 3

(***************************************************************************)
(* C33.  In the gzip inflater, at every moment the concatenation, in push  *)
(* order, of the non-final chunks pushed to the decompressor is a prefix   *)
(* of the byte stream of the tokenizer from its starting position (no byte *)
(* lost, duplicated or reordered), each chunk is at most chunkSize bytes   *)
(* (1024 in the source), and each demand of the consumer (each call of     *)
(* pull by the stream) causes at most one tokenizer read: at most one read *)
(* is pending, and every push stems from a completed read of its own.      *)
(***************************************************************************)
C33_IsData(p) == ~p.final

\* The non-final pushes, in push order.
C33_Chunks == SelectSeq(gz.pushed, C33_IsData)

\* The reads of the tokenizer that have completed.
C33_ReadsCompleted == gz.reads - (IF gz.pull = "reading" THEN 1 ELSE 0)

C33_ChunksArePrefixOfSource ==
    /\ \A k \in 1..Len(C33_Chunks) :
         /\ C33_Chunks[k].at = IF k = 1 THEN 0
                               ELSE C33_Chunks[k - 1].at + C33_Chunks[k - 1].size
         /\ C33_Chunks[k].size >= 1 /\ C33_Chunks[k].size <= chunkSize
         /\ C33_Chunks[k].at + C33_Chunks[k].size <= gz.source.size
    /\ gz.position = IF C33_Chunks = << >> THEN 0
                      ELSE C33_Chunks[Len(C33_Chunks)].at
                             + C33_Chunks[Len(C33_Chunks)].size
    /\ Len(gz.pushed) <= C33_ReadsCompleted
    /\ C33_ReadsCompleted >= 0

\* The source has been read in two chunks, the second shorter than the
\* buffer, and both have been pushed.
C33_Witness ==
    /\ gz.source.size = MaxBytes /\ Len(C33_Chunks) = 2
    /\ C33_Chunks[1].size = chunkSize /\ C33_Chunks[2].size = MaxBytes - chunkSize
    /\ gz.position = MaxBytes

(***************************************************************************)
(* C34.  On Path B the handler choices of the filter do not influence the  *)
(* traversal: for one archive and two filters that return the same stop    *)
(* values but different handler values, the handlers succeeding, the two   *)
(* runs present the same headers to the filter, reach the same position    *)
(* after every entry and end with the same outcome, failures of the        *)
(* decompressor excepted.  Both runs start from one position of one        *)
(* source, so they agree if from every position a pass with a handler and  *)
(* a pass without one agree.                                               *)
(***************************************************************************)
\* Where a pass of the forward scan ends, the handler (if any) having
\* resolved: r is the outcome of the pass up to the call of the handler.
C34_After(r, stopped) ==
    IF r.kind = "throw" THEN [pc |-> "Failed", error |-> r.error, pos |-> r.pos]
    ELSE IF r.kind = "end" THEN [pc |-> "Done", error |-> "", pos |-> r.pos]
    ELSE [pc    |-> finishEntry(r.pos, r.header, stopped).pc,
          error |-> finishEntry(r.pos, r.header, stopped).error,
          pos   |-> finishEntry(r.pos, r.header, stopped).pos]

\* A pass with a handler (with) and a pass without one (without), from the
\* same position, agree.
C34_Agree(with, without, stopped) ==
    /\ with.filtered = without.filtered
    /\ with.header = without.header
    /\ ~(with.kind = "throw" /\ with.error = "DecompressError")
         => /\ C34_After(with, stopped).pc = C34_After(without, stopped).pc
            /\ C34_After(with, stopped).error = C34_After(without, stopped).error
            /\ C34_After(with, stopped).pc # "Failed"
                 => C34_After(with, stopped).pos = C34_After(without, stopped).pos

C34_HandlerChoiceDoesNotInfluenceTraversal ==
    (path = "B" /\ pc = "EntryHeader")
      => \A stopped \in BOOLEAN :
           C34_Agree(unzipEntry(file, randomAccess, position, TRUE),
                     unzipEntry(file, randomAccess, position, FALSE), stopped)

\* The forward scan stands after a first entry that was scanned for, and
\* from that position a pass with a handler and a pass without one agree
\* on an entry that they read to its end.
C34_Witness ==
    /\ path = "B" /\ pc = "EntryHeader" /\ index = 1 /\ zipHeader.dataDescriptor
    /\ unzipEntry(file, randomAccess, position, TRUE).kind = "handler"
    /\ unzipEntry(file, randomAccess, position, FALSE).kind = "ignored"
    /\ C34_Agree(unzipEntry(file, randomAccess, position, TRUE),
                 unzipEntry(file, randomAccess, position, FALSE), FALSE)
    /\ C34_After(unzipEntry(file, randomAccess, position, TRUE), FALSE).pc
         = "EntryHeader"

(***************************************************************************)
(* C35.  On Path A, for every central entry for which the filter returns   *)
(* handler = false, unzip issues no tokenizer operation for that entry and *)
(* leaves the position unchanged; when the filter returns handler = false  *)
(* for every entry, the position at which unzip resolves is the position   *)
(* at which it was called.                                                 *)
(***************************************************************************)
\* This step is a pass of Path A in which the filter returns no handler.
C35_NoHandler ==
    /\ path = "A" /\ pc = "EntryHeader"
    /\ Len(calls') = Len(calls) + 1
    /\ calls'[Len(calls')].op = "filter" /\ ~calls'[Len(calls')].handler

\* unzip has resolved on Path A and no entry was given a handler.
C35_NothingSelected ==
    /\ path' = "A" /\ pc' = "Done"
    /\ \A i \in 1..Len(calls') : ~calls'[i].handler

C35_Step ==
    /\ C35_NoHandler => (tokenizerOps' = tokenizerOps /\ position' = position)
    /\ C35_NothingSelected => position' = 0

C35_UnselectedEntryLeavesTokenizerAlone == [][C35_Step]_vars

\* unzip has resolved on Path A after two entries, none of which was given
\* a handler.
C35_Witness ==
    /\ path = "A" /\ pc = "Done" /\ index = 2 /\ Len(calls) = 2
    /\ ~calls[1].handler /\ ~calls[2].handler
    /\ position = 0 /\ tokenizerOps > 0

(***************************************************************************)
(* C36.  On Path A, for every central entry for which the filter returns a *)
(* handler, either the handler is invoked exactly once or unzip fails:     *)
(* unzip never resolves having silently skipped a selected entry, also     *)
(* when the bytes at relativeOffsetOfLocalHeader carry the signature of a  *)
(* central file header.                                                    *)
(***************************************************************************)
\* The number of calls of the handler for the entry the i-th call is for.
C36_HandlerCalls(i) ==
    Cardinality({ j \in 1..Len(calls) :
                    calls[j].op = "handler" /\ calls[j].entry = calls[i].entry })

C36_SelectedEntryHandledOrFailed ==
    (path = "A" /\ pc = "Done")
      => \A i \in 1..Len(calls) :
           (calls[i].op = "filter" /\ calls[i].handler) => C36_HandlerCalls(i) = 1

\* unzip has resolved on Path A after the handlers of two selected entries
\* were each called once.
C36_Witness ==
    /\ path = "A" /\ pc = "Done" /\ index = 2
    /\ \A i \in 1..Len(calls) :
         (calls[i].op = "filter" /\ calls[i].handler) => C36_HandlerCalls(i) = 1
    /\ Cardinality({ i \in 1..Len(calls) : calls[i].op = "handler" }) = 2

(***************************************************************************)
(* C37.  In the gzip inflater, the decompressor answering every push with  *)
(* at least one callback and the tokenizer answering every read, every     *)
(* demand of the consumer is eventually answered: once the tokenizer has   *)
(* returned a zero-length read, the output sequence eventually becomes     *)
(* closed or errored, and does not stay pending for ever, unless the       *)
(* consumer cancels.                                                       *)
(***************************************************************************)
\* The output sequence has ended: it is closed (also by a cancel) or
\* errored, or its close has been requested and it closes when the consumer
\* has read the chunks that are queued.
C37_Ended == gz.state # "readable" \/ gz.closeRequested

\* The decompressor answers every push.
C37_Answering == ~gz.source.quiet

C37_EndOfSourceEndsOutput ==
    /\ gz.done ~> C37_Ended
    /\ (C37_Answering /\ gz.readRequests > 0) ~> (gz.readRequests = 0)

\* The tokenizer has returned a zero-length read after the whole of a
\* complete source, and the stream has been closed by the final callback,
\* which answered a pending read.
C37_Witness ==
    /\ gz.done /\ ~gz.cancelled /\ gz.state = "closed"
    /\ gz.source.complete /\ gz.source.size = MaxBytes
    /\ gz.position = MaxBytes
    /\ gz.results # << >> /\ gz.results[Len(gz.results)].kind = "done"

(***************************************************************************)
(* C38.  In the gzip inflater, after the consumer has cancelled (the       *)
(* decompressor has been terminated), no chunk is pushed to the            *)
(* decompressor any more, also when the cancel happens while a pull is     *)
(* suspended on its read of the tokenizer and that read completes          *)
(* afterwards, with data or with zero bytes.                               *)
(***************************************************************************)
C38_Step == gz.cancelled => gz'.pushed = gz.pushed

C38_NoPushAfterCancel == [][C38_Step]_vars

\* The consumer cancelled while pull was suspended on a read; the read has
\* completed with zero bytes since, and nothing was pushed.
C38_Witness ==
    /\ gz.cancelled /\ gz.done /\ gz.pull = "no" /\ gz.reads >= 1
    /\ gz.pushed = << >>

=============================================================================
